---- MODULE Spec2Model ----
(***************************************************************************)
(* Identity & policy lifecycle of uc-adapter-aws: common/naming.py,        *)
(* iam/user_manager.py, iam/group_manager.py and the DeleteUser entry      *)
(* point of main.py, run against a model of the IAM directory service.     *)
(*                                                                         *)
(* A name is a sequence of characters; a character is a one-element        *)
(* token (a string).  Every handler is one action: it threads the          *)
(* directory through the remote calls the handler issues, in the order     *)
(* of the code, and keeps the list of calls it issued with their outcomes. *)
(***************************************************************************)
EXTENDS Integers, Sequences, FiniteSets, TLC

(***************************************************************************)
(* Bounds of the model.                                                    *)
(***************************************************************************)
MaxOps == 2        \* handler invocations in one behaviour
MaxNames == 2      \* longest member / leader list passed to a handler
MaxFaults == 1     \* remote calls the service rejects during one handler
MaxLen == 4        \* longest name normalize_name is applied to on its own

(***************************************************************************)
(* common/naming.py                                                        *)
(***************************************************************************)
Letters == {"a", "b", "c", "d", "e", "n", "p", "r", "s", "A", "G", "L"}
Digits == {"1"}
Punct == {"+", "=", ",", ".", "@", "_", "-"}
Spaces == {" ", "tab"}
\* "e_acute" stands for U+00E9 (NFKD: "e" + combining accent), "L_stroke"
\* for U+0141 (no decomposition), "#" for an ASCII character IAM refuses.
Chars == Letters \cup Digits \cup Punct \cup Spaces \cup {"e_acute", "L_stroke", "#"}

\* unicodedata.normalize('NFKD', c).encode('ascii', 'ignore').decode()
AsciiFold(c) ==
    IF c = "e_acute" THEN <<"e">>
    ELSE IF c = "L_stroke" THEN <<>>
    ELSE <<c>>

RECURSIVE FoldAll(_)
FoldAll(s) == IF s = <<>> THEN <<>> ELSE AsciiFold(Head(s)) \o FoldAll(Tail(s))

\* re.sub(r'\s+', '-', s)
RECURSIVE SpacesToHyphen(_)
SpacesToHyphen(s) ==
    IF s = <<>> THEN <<>>
    ELSE IF Head(s) \in Spaces
         THEN IF Len(s) > 1 /\ s[2] \in Spaces
              THEN SpacesToHyphen(Tail(s))
              ELSE <<"-">> \o SpacesToHyphen(Tail(s))
         ELSE <<Head(s)>> \o SpacesToHyphen(Tail(s))

\* re.sub(r'[^a-zA-Z0-9+=,.@_-]', '', s)
KeepAllowed(s) == SelectSeq(s, LAMBDA c : c \in Letters \cup Digits \cup Punct)

\* re.sub(r'-+', '-', s)
RECURSIVE CollapseHyphens(_)
CollapseHyphens(s) ==
    IF s = <<>> THEN <<>>
    ELSE IF Head(s) = "-" /\ Len(s) > 1 /\ s[2] = "-"
         THEN CollapseHyphens(Tail(s))
         ELSE <<Head(s)>> \o CollapseHyphens(Tail(s))

\* s.strip('-_')
RECURSIVE StripLeft(_)
StripLeft(s) ==
    IF s # <<>> /\ Head(s) \in {"-", "_"} THEN StripLeft(Tail(s)) ELSE s

RECURSIVE StripRight(_)
StripRight(s) ==
    IF s # <<>> /\ s[Len(s)] \in {"-", "_"}
    THEN StripRight(SubSeq(s, 1, Len(s) - 1))
    ELSE s

Strip(s) == StripRight(StripLeft(s))

\* normalize_name stripping one character at each end at most
normalize_name_strip_one(name) ==
    IF name = <<>> THEN <<>>
    ELSE LET c == CollapseHyphens(KeepAllowed(SpacesToHyphen(FoldAll(name))))
             l == IF c # <<>> /\ Head(c) \in {"-", "_"} THEN Tail(c) ELSE c
         IN  IF l # <<>> /\ l[Len(l)] \in {"-", "_"}
             THEN SubSeq(l, 1, Len(l) - 1) ELSE l

normalize_name(name) ==
    IF name = <<>> THEN <<>>
    ELSE Strip(CollapseHyphens(KeepAllowed(SpacesToHyphen(FoldAll(name)))))

(***************************************************************************)
(* The IAM directory service behind iam_client.  A directory is a record:  *)
(*   groups   the group names that exist                                   *)
(*   users    the identity ids that exist                                  *)
(*   profile  the identities that have a login profile (the code always    *)
(*            sets PasswordResetRequired=True)                             *)
(*   member   the membership links <<group, user>>                         *)
(*   gpol     the inline group policies <<group, policy name, document>>   *)
(*   tag      the Group tag of each identity, <<user, value>>              *)
(* A call is a record [op, grp, usr, pol, doc]; unused fields are NoName.  *)
(***************************************************************************)
NoName == <<>>
NoPol == ""

EmptyDir ==
    [groups |-> {}, users |-> {}, profile |-> {}, member |-> {},
     gpol |-> {}, tag |-> {}]

Call(op, grp, usr, pol, doc) ==
    [op |-> op, grp |-> grp, usr |-> usr, pol |-> pol, doc |-> doc]

GroupsOf(d, u) == {g \in d.groups : <<g, u>> \in d.member}
UsersIn(d, g) == {u \in d.users : <<g, u>> \in d.member}
PolicyNames(d, g) == {t[2] : t \in {x \in d.gpol : x[1] = g}}

\* The error code the service answers a call with ("ok" when it accepts it).
\* NoSuchEntity carries what the message names, because
\* create_users_for_group looks for the word 'group' in the message.
IamError(d, c) ==
    CASE c.op = "create_group" ->
           IF c.grp \in d.groups THEN "EntityAlreadyExists" ELSE "ok"
      [] c.op \in {"get_group", "list_group_policies", "put_group_policy", "delete_group_policy"} ->
           IF c.grp \notin d.groups THEN "NoSuchEntity:group"
           ELSE IF c.op = "delete_group_policy" /\ c.pol \notin PolicyNames(d, c.grp)
                THEN "NoSuchEntity:policy" ELSE "ok"
      [] c.op = "delete_group" ->
           IF c.grp \notin d.groups THEN "NoSuchEntity:group"
           ELSE IF UsersIn(d, c.grp) # {} \/ PolicyNames(d, c.grp) # {}
                THEN "DeleteConflict" ELSE "ok"
      [] c.op = "create_user" ->
           IF c.usr \in d.users THEN "EntityAlreadyExists" ELSE "ok"
      [] c.op = "create_login_profile" ->
           IF c.usr \notin d.users THEN "NoSuchEntity:user"
           ELSE IF c.usr \in d.profile THEN "EntityAlreadyExists" ELSE "ok"
      [] c.op = "delete_login_profile" ->
           IF c.usr \notin d.users THEN "NoSuchEntity:user"
           ELSE IF c.usr \notin d.profile THEN "NoSuchEntity:profile" ELSE "ok"
      [] c.op \in {"add_user_to_group", "remove_user_from_group"} ->
           IF c.grp \notin d.groups THEN "NoSuchEntity:group"
           ELSE IF c.usr \notin d.users THEN "NoSuchEntity:user" ELSE "ok"
      [] c.op = "delete_user" ->
           IF c.usr \notin d.users THEN "NoSuchEntity:user"
           ELSE IF c.usr \in d.profile \/ GroupsOf(d, c.usr) # {}
                THEN "DeleteConflict" ELSE "ok"
      [] OTHER ->  \* tag_user and the list_* calls on an identity
           IF c.usr \notin d.users THEN "NoSuchEntity:user" ELSE "ok"

IsNoSuchEntity(e) ==
    e \in {"NoSuchEntity:group", "NoSuchEntity:user", "NoSuchEntity:profile",
           "NoSuchEntity:policy"}

\* The directory after the service accepted the call.
IamApply(d, c) ==
    CASE c.op = "create_group" -> [d EXCEPT !.groups = @ \cup {c.grp}]
      [] c.op = "delete_group" -> [d EXCEPT !.groups = @ \ {c.grp}]
      [] c.op = "put_group_policy" ->
           [d EXCEPT !.gpol = {t \in @ : ~(t[1] = c.grp /\ t[2] = c.pol)}
                               \cup {<<c.grp, c.pol, c.doc>>}]
      [] c.op = "delete_group_policy" ->
           [d EXCEPT !.gpol = {t \in @ : ~(t[1] = c.grp /\ t[2] = c.pol)}]
      [] c.op = "create_user" ->
           [d EXCEPT !.users = @ \cup {c.usr}, !.tag = @ \cup {<<c.usr, c.grp>>}]
      [] c.op = "tag_user" ->
           [d EXCEPT !.tag = {t \in @ : t[1] # c.usr} \cup {<<c.usr, c.grp>>}]
      [] c.op = "create_login_profile" -> [d EXCEPT !.profile = @ \cup {c.usr}]
      [] c.op = "delete_login_profile" -> [d EXCEPT !.profile = @ \ {c.usr}]
      [] c.op = "add_user_to_group" ->
           [d EXCEPT !.member = @ \cup {<<c.grp, c.usr>>}]
      [] c.op = "remove_user_from_group" ->
           [d EXCEPT !.member = @ \ {<<c.grp, c.usr>>}]
      [] c.op = "delete_user" ->
           [d EXCEPT !.users = @ \ {c.usr}, !.tag = {t \in @ : t[1] # c.usr}]
      [] OTHER -> d

\* What a rejected call is recognised by: the operation and the names
\* (group, identity, policy) it is made with.
FaultKey(c) == <<c.op, c.grp, c.usr, c.pol>>

\* The outcome of a call the service answered with err.  st = [d, log];
\* the log entry keeps the groups the identity was linked to at the call.
Answer(st, c, err) ==
    [d |-> IF err = "ok" THEN IamApply(st.d, c) ELSE st.d,
     log |-> Append(st.log, [op |-> c.op, grp |-> c.grp, usr |-> c.usr,
                             pol |-> c.pol, err |-> err,
                             linked |-> GroupsOf(st.d, c.usr)]),
     err |-> err]

\* One remote call of a handler.  F is the set of calls the service
\* rejects with a failure of its own (access denied, throttling).
Do(st, c, F) ==
    Answer(st, c, IF FaultKey(c) \in F THEN "ServiceFailure" ELSE IamError(st.d, c))

St(r) == [d |-> r.d, log |-> r.log]

\* The calls of one try block, in order, left at the first call that raises.
RECURSIVE RunCalls(_, _, _)
RunRest(r, calls, F) == IF r.err = "ok" THEN RunCalls(St(r), calls, F) ELSE r

RunCalls(st, calls, F) ==
    IF calls = <<>> THEN [d |-> st.d, log |-> st.log, err |-> "ok"]
    ELSE RunRest(Do(st, Head(calls), F), Tail(calls), F)

\* The elements of a set of names as a list, in the order the service
\* happens to return them.
RECURSIVE SetToSeq(_)
SetToSeq(S) ==
    IF S = {} THEN <<>>
    ELSE LET x == CHOOSE y \in S : TRUE IN <<x>> \o SetToSeq(S \ {x})

(***************************************************************************)
(* iam/user_manager.py                                                     *)
(***************************************************************************)
Hyphen == <<"-">>

UserCall(op, user) == Call(op, NoName, user, NoPol, NoPol)
MemberCall(op, group, user) == Call(op, group, user, NoPol, NoPol)

\* username of create_users_for_group; group is the normalised group name
CreateUsersUserName(user, group) == normalize_name(user \o Hyphen \o group)

RECURSIVE _rollback_users(_, _, _)
\* _rollback_users given up at the first identity whose delete is rejected
_rollback_users_stop_on_failure(st, created_users, F) ==
    IF created_users = <<>> THEN st
    ELSE IF Do(St(Do(st, UserCall("delete_login_profile", Head(created_users)), F)),
               UserCall("delete_user", Head(created_users)), F).err # "ok"
         THEN St(Do(St(Do(st, UserCall("delete_login_profile", Head(created_users)), F)),
                    UserCall("delete_user", Head(created_users)), F))
         ELSE _rollback_users(
                  St(Do(St(Do(st, UserCall("delete_login_profile", Head(created_users)), F)),
                        UserCall("delete_user", Head(created_users)), F)),
                  Tail(created_users), F)

\* _rollback_users: for each created identity delete_login_profile, then
\* delete_user; a rejected call is logged and the loop goes on
_rollback_users(st, created_users, F) ==
    IF created_users = <<>> THEN st
    ELSE _rollback_users(
             St(Do(St(Do(st, UserCall("delete_login_profile", Head(created_users)), F)),
                   UserCall("delete_user", Head(created_users)), F)),
             Tail(created_users), F)

\* What create_users_for_group returns after the rollback left rb.
Aborted(rb, err, created) ==
    [d |-> rb.d, log |-> rb.log,
     ret |-> IF err = "NoSuchEntity:group"
             THEN "Operation aborted: Group does not exist"
             ELSE "Operation aborted: Error",
     created |-> created]

RECURSIVE create_users_loop(_, _, _, _, _, _)
\* create_users_except with the rollback left out
create_users_except_no_rollback(r, users, i, group, created, F) ==
    IF r.err \in {"ok", "EntityAlreadyExists"}
    THEN create_users_loop(St(r), users, i + 1, group, created, F)
    ELSE Aborted(St(r), r.err, created)

\* The except clause of the loop body: r is what the three calls for
\* username left, created the list with username appended once
\* create_user had succeeded.
create_users_except(r, users, i, group, created, F) ==
    IF r.err \in {"ok", "EntityAlreadyExists"}
    THEN create_users_loop(St(r), users, i + 1, group, created, F)
    ELSE Aborted(_rollback_users(St(r), created, F), r.err, created)

\* create_users_try going on to the login profile and the group when
\* create_user answered EntityAlreadyExists
create_users_try_no_skip(r1, users, i, group, created_users, username, F) ==
    IF r1.err \notin {"ok", "EntityAlreadyExists"}
    THEN create_users_except(r1, users, i, group, created_users, F)
    ELSE create_users_except(
             RunCalls(St(r1), <<UserCall("create_login_profile", username),
                                MemberCall("add_user_to_group", group, username)>>, F),
             users, i, group, created_users, F)

\* The try block of the loop body: r1 is what create_user left; its error
\* goes to the except clause, else the login profile and the group follow.
create_users_try(r1, users, i, group, created_users, username, F) ==
    IF r1.err # "ok"
    THEN create_users_except(r1, users, i, group, created_users, F)
    ELSE create_users_except(
             RunCalls(St(r1), <<UserCall("create_login_profile", username),
                                MemberCall("add_user_to_group", group, username)>>, F),
             users, i, group, Append(created_users, username), F)

\* create_users_loop putting a name on the created list also when
\* create_user answered that it already exists
create_users_loop_list_existing(st, users, i, group, created_users, F) ==
    IF i > Len(users)
    THEN [d |-> st.d, log |-> st.log, ret |-> "Successfully processed",
          created |-> created_users]
    ELSE create_users_try(
             Do(st, MemberCall("create_user", group, CreateUsersUserName(users[i], group)), F),
             users, i, group,
             IF CreateUsersUserName(users[i], group) \in st.d.users
             THEN Append(created_users, CreateUsersUserName(users[i], group))
             ELSE created_users,
             CreateUsersUserName(users[i], group), F)

\* the loop over users: create_user for the i-th name, then the try block
create_users_loop(st, users, i, group, created_users, F) ==
    IF i > Len(users)
    THEN [d |-> st.d, log |-> st.log, ret |-> "Successfully processed",
          created |-> created_users]
    ELSE create_users_try(
             Do(st, MemberCall("create_user", group, CreateUsersUserName(users[i], group)), F),
             users, i, group, created_users, CreateUsersUserName(users[i], group), F)

create_users_for_group(d, users, group_name, F) ==
    create_users_loop([d |-> d, log |-> <<>>], users, 1,
                      normalize_name(group_name), <<>>, F)

\* DeleteUserResult with the except clause answering False to every error
DeleteUserResult_swallow(r) ==
    [d |-> r.d, log |-> r.log, ret |-> IF r.err = "ok" THEN "True" ELSE "False"]

\* What UserManager.delete_user gives back: "True", "False" or "raise"
DeleteUserResult(r) ==
    [d |-> r.d, log |-> r.log,
     ret |-> IF r.err = "ok" THEN "True"
             ELSE IF IsNoSuchEntity(r.err) THEN "False" ELSE "raise"]

\* delete_user_rest without step 3 (the identity is left in its groups)
delete_user_rest_keep_groups(r1, username, groups, F) ==
    IF r1.err = "ok" \/ IsNoSuchEntity(r1.err)
    THEN RunCalls(St(r1),
           <<UserCall("list_access_keys", username),
             UserCall("list_attached_user_policies", username),
             UserCall("list_user_policies", username),
             UserCall("list_mfa_devices", username),
             UserCall("delete_user", username)>>, F)
    ELSE r1

\* steps 2 to 7 of UserManager.delete_user, after step 1 left r1
delete_user_rest(r1, username, groups, F) ==
    IF r1.err = "ok" \/ IsNoSuchEntity(r1.err)
    THEN RunCalls(St(r1),
           <<UserCall("list_access_keys", username),
             UserCall("list_groups_for_user", username)>>
           \o [k \in 1..Len(groups) |->
                 MemberCall("remove_user_from_group", groups[k], username)]
           \o <<UserCall("list_attached_user_policies", username),
                UserCall("list_user_policies", username),
                UserCall("list_mfa_devices", username),
                UserCall("delete_user", username)>>, F)
    ELSE r1

delete_user(d, username, F) ==
    DeleteUserResult(
        delete_user_rest(
            Do([d |-> d, log |-> <<>>], UserCall("delete_login_profile", username), F),
            username, SetToSeq(GroupsOf(d, username)), F))

\* leader_user of add_leader_to_existing_group
AddLeaderUserName(leader_name, group) == normalize_name(leader_name \o Hyphen \o group)

\* _add_user_to_group_safe (the same in both managers)
_add_user_to_group_safe(st, group, user, F) ==
    St(Do(st, MemberCall("add_user_to_group", group, user), F))

LeadersPrefix == <<"L", "e", "a", "d", "e", "r", "s", "-">>

\* the handler returned ret and left st
Returned(st, ret) == [d |-> st.d, log |-> st.log, ret |-> ret]

\* add_leader_except stopping at an identity that already exists
add_leader_except_stop_on_exists(r, group, leader_user, F) ==
    IF r.err # "ok"
    THEN [d |-> r.d, log |-> r.log, ret |-> "stopped"]
    ELSE Returned(
           _add_user_to_group_safe(
             _add_user_to_group_safe(St(r), LeadersPrefix \o group, leader_user, F),
             group, leader_user, F), "added")

\* add_leader_to_existing_group after the try block of step 3 left r
add_leader_except(r, group, leader_user, F) ==
    IF r.err \notin {"ok", "EntityAlreadyExists"}
    THEN [d |-> r.d, log |-> r.log, ret |-> "stopped"]
    ELSE Returned(
           _add_user_to_group_safe(
             _add_user_to_group_safe(
               IF r.err = "EntityAlreadyExists"
               THEN St(Do(St(r), MemberCall("tag_user", group, leader_user), F))
               ELSE St(r),
               LeadersPrefix \o group, leader_user, F),
             group, leader_user, F), "added")

add_leader_steps(st, group, leader_user, F) ==
    add_leader_except(
        RunCalls(st, <<MemberCall("create_user", group, leader_user),
                       UserCall("create_login_profile", leader_user)>>, F),
        group, leader_user, F)

add_leader_to_existing_group(d, group_name, leader_name, F) ==
    add_leader_steps([d |-> d, log |-> <<>>], normalize_name(group_name),
                     AddLeaderUserName(leader_name, normalize_name(group_name)), F)

(***************************************************************************)
(* iam/group_manager.py                                                    *)
(***************************************************************************)
\* The files of config/policies (the local policy catalog).
PolicyFiles ==
    {"student_ec2_policy.json", "leader_ec2_policy.json",
     "student_s3_policy.json", "regional_restriction_policy.json",
     "change_password_policy.json"}

GroupCall(op, group) == Call(op, group, NoName, NoPol, NoPol)
PolicyCall(op, group, pol, doc) == Call(op, group, NoName, pol, doc)

\* group_exists answering False to every error
GroupExistsResult_never_raises(r) ==
    [d |-> r.d, log |-> r.log, ret |-> IF r.err = "ok" THEN "True" ELSE "False"]

\* What GroupManager.group_exists gives back: "True", "False" or "raise"
GroupExistsResult(r) ==
    [d |-> r.d, log |-> r.log,
     ret |-> IF r.err = "ok" THEN "True"
             ELSE IF IsNoSuchEntity(r.err) THEN "False" ELSE "raise"]

group_exists_call(st, group, F) ==
    IF group = <<>> THEN [d |-> st.d, log |-> st.log, ret |-> "False"]
    ELSE GroupExistsResult(Do(st, GroupCall("get_group", group), F))

group_exists(st, group_name, F) == group_exists_call(st, normalize_name(group_name), F)

\* policy_name_iam of _apply_policies_from_files
PolicyNameIam(policy_prefix, resource) ==
    IF resource = "region" THEN "regional_restriction_policy"
    ELSE policy_prefix \o "_" \o resource \o "_policy"

\* put_policy attaching under a new name when the name is taken
put_policy_versioned(st, target_group, policy_name_iam, F) ==
    Do(st, PolicyCall("put_group_policy", target_group,
                      IF policy_name_iam \in PolicyNames(st.d, target_group)
                      THEN policy_name_iam \o "_2" ELSE policy_name_iam,
                      policy_name_iam \o ".json"), F)

\* self.iam_client.put_group_policy(GroupName, PolicyName, PolicyDocument)
put_policy(st, target_group, policy_name_iam, F) ==
    Do(st, PolicyCall("put_group_policy", target_group, policy_name_iam,
                      policy_name_iam \o ".json"), F)

RECURSIVE _apply_policies_loop(_, _, _, _, _)
\* _apply_policies_put logging the error and going on with the next file
_apply_policies_put_continue(r, target_group, resource_types, policy_prefix, F) ==
    _apply_policies_loop(St(r), target_group, resource_types, policy_prefix, F)

\* the try block of the loop body: a ClientError is raised again
_apply_policies_put(r, target_group, resource_types, policy_prefix, F) ==
    IF r.err = "ok"
    THEN _apply_policies_loop(St(r), target_group, resource_types, policy_prefix, F)
    ELSE r

\* _apply_policies_loop leaving the loop at a missing file (break for continue)
_apply_policies_loop_break(st, target_group, resource_types, policy_prefix, F) ==
    IF resource_types = <<>> THEN [d |-> st.d, log |-> st.log, err |-> "ok"]
    ELSE IF Head(resource_types) = "region" /\ policy_prefix = "leader"
         THEN _apply_policies_loop(st, target_group, Tail(resource_types), policy_prefix, F)
         ELSE IF PolicyNameIam(policy_prefix, Head(resource_types)) \o ".json" \notin PolicyFiles
              THEN [d |-> st.d, log |-> st.log, err |-> "ok"]
              ELSE _apply_policies_put(
                       put_policy(st, target_group,
                                  PolicyNameIam(policy_prefix, Head(resource_types)), F),
                       target_group, Tail(resource_types), policy_prefix, F)

_apply_policies_loop(st, target_group, resource_types, policy_prefix, F) ==
    IF resource_types = <<>> THEN [d |-> st.d, log |-> st.log, err |-> "ok"]
    ELSE IF \/ Head(resource_types) = "region" /\ policy_prefix = "leader"
            \/ PolicyNameIam(policy_prefix, Head(resource_types)) \o ".json" \notin PolicyFiles
         THEN _apply_policies_loop(st, target_group, Tail(resource_types), policy_prefix, F)
         ELSE _apply_policies_put(
                  put_policy(st, target_group,
                             PolicyNameIam(policy_prefix, Head(resource_types)), F),
                  target_group, Tail(resource_types), policy_prefix, F)

_apply_policies_from_files(st, target_group, resource_types, policy_prefix, F) ==
    _apply_policies_loop(st, normalize_name(target_group), resource_types, policy_prefix, F)

\* student_resources without the automatic 'region'
StudentResources_as_given(resource_types) == resource_types

\* student_resources of assign_policies_to_target
StudentResources(resource_types) ==
    IF \E k \in 1..Len(resource_types) : resource_types[k] = "region"
    THEN resource_types ELSE Append(resource_types, "region")

\* leader_resources of assign_policies_to_target
IsNotRegion(r) == r # "region"
LeaderResources(resource_types) == SelectSeq(resource_types, IsNotRegion)

\* assign_leader_policies applying the leader policies without asking
\* whether the leader group exists
assign_leader_policies_unchecked(e, leaders_group_name, resource_types, F) ==
    IF e.ret = "raise" THEN [d |-> e.d, log |-> e.log, err |-> "ServiceFailure"]
    ELSE _apply_policies_from_files(St(e), leaders_group_name,
                                    LeaderResources(resource_types), "leader", F)

\* part 2 of assign_policies_to_target, after group_exists answered e
assign_leader_policies(e, leaders_group_name, resource_types, F) ==
    IF e.ret = "raise" THEN [d |-> e.d, log |-> e.log, err |-> "ServiceFailure"]
    ELSE IF e.ret = "True"
         THEN _apply_policies_from_files(St(e), leaders_group_name,
                                         LeaderResources(resource_types), "leader", F)
         ELSE [d |-> e.d, log |-> e.log, err |-> "ok"]

\* assign_policies_to_target after part 1 left s
assign_after_students(s, leaders_group_name, resource_types, F) ==
    IF s.err # "ok" THEN s
    ELSE assign_leader_policies(group_exists(St(s), leaders_group_name, F),
                                leaders_group_name, resource_types, F)

assign_policies_steps(st, resource_types, group, F) ==
    assign_after_students(
        _apply_policies_from_files(st, group, StudentResources(resource_types), "student", F),
        LeadersPrefix \o group, resource_types, F)

\* GroupManager.assign_policies_to_target with group_name given and no
\* user_name; err is "ok" or what the call raises.
assign_policies_to_target(st, resource_types, group_name, F) ==
    IF group_name = <<>> THEN [d |-> st.d, log |-> st.log, err |-> "ValueError"]
    ELSE assign_policies_steps(st, resource_types, normalize_name(group_name), F)

\* r with EntityAlreadyExists taken for success
AlreadyExistsIsOk(r) ==
    [d |-> r.d, log |-> r.log,
     err |-> IF r.err = "EntityAlreadyExists" THEN "ok" ELSE r.err]

\* _create_iam_group_safe raising EntityAlreadyExists like any other error
_create_iam_group_strict(st, name, F) == Do(st, GroupCall("create_group", name), F)

\* _create_iam_group_safe: err is "ok" or what it raises
_create_iam_group_safe(st, name, F) ==
    AlreadyExistsIsOk(Do(st, GroupCall("create_group", name), F))

\* _attach_change_password_policy finding no file: nothing is put
_attach_change_password_policy_no_file(st, group_name, F) ==
    [d |-> st.d, log |-> st.log, err |-> "ok"]

\* _attach_change_password_policy: puts the policy when its file is there
_attach_change_password_policy(st, group_name, F) ==
    IF "change_password_policy.json" \in PolicyFiles
    THEN Do(st, PolicyCall("put_group_policy", group_name,
                           "change_password_policy", "change_password_policy.json"), F)
    ELSE [d |-> st.d, log |-> st.log, err |-> "ok"]

\* leader_user with the group name put first
LeaderUserName_group_first(leader, group) == normalize_name(group \o Hyphen \o leader)

\* leader_user of create_group_with_leaders
LeaderUserName(leader, group) == normalize_name(leader \o Hyphen \o group)

\* the except clause of step 4: EntityAlreadyExists refreshes the tag, any
\* other error is logged; either way the leader is then added to both groups
create_leader_except(r, group, leader_user, F) ==
    _add_user_to_group_safe(
        _add_user_to_group_safe(
            IF r.err = "EntityAlreadyExists"
            THEN St(Do(St(r), MemberCall("tag_user", group, leader_user), F))
            ELSE St(r),
            LeadersPrefix \o group, leader_user, F),
        group, leader_user, F)

create_leader(st, group, leader_user, F) ==
    create_leader_except(
        RunCalls(st, <<MemberCall("create_user", group, leader_user),
                       UserCall("create_login_profile", leader_user)>>, F),
        group, leader_user, F)

\* step 4 of create_group_with_leaders: nothing here raises
RECURSIVE create_leaders_loop(_, _, _, _)
create_leaders_loop(st, leaders, group, F) ==
    IF leaders = <<>> THEN st
    ELSE create_leaders_loop(
             create_leader(st, group, LeaderUserName(Head(leaders), group), F),
             Tail(leaders), group, F)

\* Steps 1 to 3 of create_group_with_leaders; the first error ends them.
create_group_step(r, k, resource_types, group, F) ==
    IF r.err # "ok" THEN r
    ELSE CASE k = 2 -> _create_iam_group_safe(St(r), LeadersPrefix \o group, F)
           [] k = 3 -> assign_policies_to_target(St(r), resource_types, group, F)
           [] k = 4 -> _attach_change_password_policy(St(r), group, F)
           [] k = 5 -> _attach_change_password_policy(St(r), LeadersPrefix \o group, F)

create_group_steps(st, resource_types, group, F) ==
    create_group_step(
      create_group_step(
        create_group_step(
          create_group_step(_create_iam_group_safe(st, group, F),
                            2, resource_types, group, F),
          3, resource_types, group, F),
        4, resource_types, group, F),
      5, resource_types, group, F)

create_group_leaders(r, leaders, group, F) ==
    IF r.err = "ok" THEN Returned(create_leaders_loop(St(r), leaders, group, F), "returned")
    ELSE Returned(r, "raise")

create_group_with_leaders(d, resource_types, leaders, group_name, F) ==
    create_group_leaders(
        create_group_steps([d |-> d, log |-> <<>>], resource_types,
                           normalize_name(group_name), F),
        leaders, normalize_name(group_name), F)

\* remove_user_from_group of every member; a ClientError is passed over
RECURSIVE detach_users(_, _, _, _)
detach_users(st, g, users, F) ==
    IF users = <<>> THEN st
    ELSE detach_users(St(Do(st, MemberCall("remove_user_from_group", g, Head(users)), F)),
                      g, Tail(users), F)

\* steps 2 and 3 of the try block of phase 1
delete_policies_and_group(st, g, pols, F) ==
    RunCalls(st,
        <<GroupCall("list_group_policies", g)>>
        \o [k \in 1..Len(pols) |-> PolicyCall("delete_group_policy", g, pols[k], NoPol)]
        \o <<GroupCall("delete_group", g)>>, F)

\* the try block of phase 1 for the group g, after get_group answered r
clean_group_try(r, g, users, pols, F) ==
    IF r.err # "ok" THEN r
    ELSE delete_policies_and_group(detach_users(St(r), g, users, F), g, pols, F)

\* clean_group_except reporting a missing group as an error
clean_group_except_no_skip(end, g, acc, members) ==
    [d |-> end.d, log |-> end.log,
     users_to_delete |-> IF end.log[Len(acc.log) + 1].err = "ok"
                         THEN acc.users_to_delete \cup members
                         ELSE acc.users_to_delete,
     messages |-> IF end.err = "ok" THEN Append(acc.messages, <<"deleted", g>>)
                  ELSE Append(acc.messages, <<"Error", g>>)]

\* acc = [users_to_delete, messages] after the try block for g left end
clean_group_except(end, g, acc, members) ==
    [d |-> end.d, log |-> end.log,
     users_to_delete |-> IF end.log[Len(acc.log) + 1].err = "ok"
                         THEN acc.users_to_delete \cup members
                         ELSE acc.users_to_delete,
     messages |-> IF end.err = "ok" THEN Append(acc.messages, <<"deleted", g>>)
                  ELSE IF IsNoSuchEntity(end.err) THEN acc.messages
                  ELSE Append(acc.messages, <<"Error", g>>)]

\* Phase 1 of delete_group_and_users for the groups gs, in order.
\* acc = [d, log, users_to_delete, messages]
RECURSIVE clean_groups(_, _, _)
\* clean_groups leaving the loop when the try block of a group failed
clean_groups_stop_on_error(acc, gs, F) ==
    IF gs = <<>> THEN acc
    ELSE IF clean_group_try(Do(St(acc), GroupCall("get_group", Head(gs)), F),
                            Head(gs), SetToSeq(UsersIn(acc.d, Head(gs))),
                            SetToSeq(PolicyNames(acc.d, Head(gs))), F).err # "ok"
         THEN clean_group_except(
                  clean_group_try(Do(St(acc), GroupCall("get_group", Head(gs)), F),
                                  Head(gs), SetToSeq(UsersIn(acc.d, Head(gs))),
                                  SetToSeq(PolicyNames(acc.d, Head(gs))), F),
                  Head(gs), acc, UsersIn(acc.d, Head(gs)))
         ELSE clean_groups(
                  clean_group_except(
                      clean_group_try(Do(St(acc), GroupCall("get_group", Head(gs)), F),
                                      Head(gs), SetToSeq(UsersIn(acc.d, Head(gs))),
                                      SetToSeq(PolicyNames(acc.d, Head(gs))), F),
                      Head(gs), acc, UsersIn(acc.d, Head(gs))),
                  Tail(gs), F)

\* the loop of phase 1: one try block per group, whatever the one before left
clean_groups(acc, gs, F) ==
    IF gs = <<>> THEN acc
    ELSE clean_groups(
             clean_group_except(
                 clean_group_try(Do(St(acc), GroupCall("get_group", Head(gs)), F),
                                 Head(gs), SetToSeq(UsersIn(acc.d, Head(gs))),
                                 SetToSeq(PolicyNames(acc.d, Head(gs))), F),
                 Head(gs), acc, UsersIn(acc.d, Head(gs))),
             Tail(gs), F)

\* steps A to E of phase 2 for one identity; only step E can leave the try
delete_one_user(st, u_name, F) ==
    Do(St(Do(St(Do(St(Do(St(Do(st,
        UserCall("delete_login_profile", u_name), F)),
        UserCall("list_access_keys", u_name), F)),
        UserCall("list_user_policies", u_name), F)),
        UserCall("list_attached_user_policies", u_name), F)),
        UserCall("delete_user", u_name), F)

\* Phase 2 of delete_group_and_users; order is the order in which the
\* loop meets the elements of the set users_to_delete.
RECURSIVE delete_users(_, _, _, _)
\* delete_users_next leaving the loop at the first identity whose delete fails
delete_users_next_abort(e, order, removed_users_list, F) ==
    IF e.err = "ok"
    THEN delete_users(St(e), Tail(order), Append(removed_users_list, Head(order)), F)
    ELSE [d |-> e.d, log |-> e.log, removed |-> removed_users_list]

delete_users_next(e, order, removed_users_list, F) ==
    delete_users(St(e), Tail(order),
                 IF e.err = "ok" THEN Append(removed_users_list, Head(order))
                 ELSE removed_users_list, F)

delete_users(st, order, removed_users_list, F) ==
    IF order = <<>> THEN [d |-> st.d, log |-> st.log, removed |-> removed_users_list]
    ELSE delete_users_next(delete_one_user(st, Head(order), F), order,
                           removed_users_list, F)

\* groups_to_clean without the leader group
groups_to_clean_student_only(group) == <<group>>

groups_to_clean(group) == <<group, LeadersPrefix \o group>>

delete_groups_phase(d, group_name, F) ==
    clean_groups([d |-> d, log |-> <<>>, users_to_delete |-> {}, messages |-> <<>>],
                 groups_to_clean(normalize_name(group_name)), F)

RemoveGroupResult(p1, p2) ==
    [d |-> p2.d, log |-> p2.log, removed |-> p2.removed, messages |-> p1.messages,
     users_to_delete |-> p1.users_to_delete, ret |-> "returned"]

\* delete_users_phase collecting the members in a list: an identity met in
\* both groups is in it twice
delete_users_phase_list(p1, order, F) ==
    RemoveGroupResult(p1,
        delete_users(St(p1),
            order \o SelectSeq(order, LAMBDA u :
                        Cardinality({k \in DOMAIN p1.log :
                            /\ p1.log[k].op = "remove_user_from_group"
                            /\ p1.log[k].usr = u}) > 1),
            <<>>, F))

delete_users_phase(p1, order, F) ==
    RemoveGroupResult(p1, delete_users(St(p1), order, <<>>, F))

delete_group_and_users(d, group_name, order, F) ==
    delete_users_phase(delete_groups_phase(d, group_name, F), order, F)

(***************************************************************************)
(* main.py                                                                 *)
(***************************************************************************)
\* aws_username without the normalisation of the group name
DeleteUserAwsUsername_raw_group(raw_user, raw_group) ==
    normalize_name(raw_user \o Hyphen \o raw_group)

\* aws_username of CloudAdapterServicer.DeleteUser
DeleteUserAwsUsername(raw_user, raw_group) ==
    normalize_name(raw_user \o Hyphen \o normalize_name(raw_group))

\* The answer of an entry point that rejected its arguments before dispatch
\* (grpc.StatusCode.INVALID_ARGUMENT): no call, nothing changed.
InvalidArgument(d) ==
    [d |-> d, log |-> <<>>, ret |-> "INVALID_ARGUMENT", created |-> <<>>]

\* CloudAdapterServicer.CreateGroupWithLeaders after the online check
CreateGroupWithLeadersReply(d, resource_types, leaders, group_name, F) ==
    IF leaders = <<>> \/ resource_types = <<>>
    THEN InvalidArgument(d)
    ELSE create_group_with_leaders(d, resource_types, leaders, group_name, F)

\* CloudAdapterServicer.CreateUsersForGroup after the online check
CreateUsersForGroupReply(d, users, group_name, F) ==
    IF users = <<>>
    THEN InvalidArgument(d)
    ELSE create_users_for_group(d, users, group_name, F)

(***************************************************************************)
(* The state machine.  Each action is one handler invocation, run to its   *)
(* return against the directory.                                           *)
(*   dir         the directory                                             *)
(*   last        the last invocation: handler, arguments, result, the      *)
(*               remote calls it issued in order, what it reported, and    *)
(*               the directory it started from                             *)
(*   opsLeft     invocations the behaviour may still make                  *)
(*   faultsLeft  calls the service may still reject with a failure of its  *)
(*               own                                                       *)
(*   raw, norm   a name given to normalize_name on its own, and the list   *)
(*               of results of applying normalize_name to it repeatedly    *)
(*   thr         the handler invocations that run at the same time on the  *)
(*               worker threads of the server, each at one remote call     *)
(***************************************************************************)
VARIABLES dir, last, opsLeft, faultsLeft, raw, norm, thr

vars == <<dir, last, opsLeft, faultsLeft, raw, norm, thr>>

\* The raw names callers pass: cohorts "Lab Grp #1" and "_c", members "a"
\* and "Ann Lee".
RawCohorts == {<<"L", "a", "b", " ", "G", "r", "p", " ", "#", "1">>, <<"_", "c">>}
RawMembers == {<<"a">>, <<"A", "n", "n", " ", "L", "e", "e">>}
\* "xx" has no catalog file, "s3" none for leaders.
ResourceLists == {<<"xx", "ec2">>, <<"s3", "region">>}

\* names that normalise to the empty name: "" and " #"
BlankCohorts == {<<>>, <<" ", "#">>}

NameLists == UNION {[1..n -> RawMembers] : n \in 1..MaxNames}

\* a repeated field of a request may come empty
NameListsOrEmpty == NameLists \cup {<<>>}
ResourceListsOrEmpty == ResourceLists \cup {<<>>}

Range(f) == {f[k] : k \in DOMAIN f}
Perms(S) == {f \in [1..Cardinality(S) -> S] : Range(f) = S}

LogKeys(log) == {<<e.op, e.grp, e.usr, e.pol>> : e \in Range(log)}
Clean(log) == \A k \in DOMAIN log : log[k].err # "ServiceFailure"

\* The remote calls the handler h = [op, args] issues from the directory d
\* when the service rejects the calls F.
Calls(d, h, F) ==
    CASE h.op = "GroupExists" ->
           group_exists([d |-> d, log |-> <<>>], h.args.cohort, F).log
      [] h.op = "CreateGroupWithLeaders" ->
           CreateGroupWithLeadersReply(d, h.args.res, h.args.names, h.args.cohort, F).log
      [] h.op = "CreateUsersForGroup" ->
           CreateUsersForGroupReply(d, h.args.names, h.args.cohort, F).log
      [] h.op = "AssignPolicies" ->
           assign_policies_to_target([d |-> d, log |-> <<>>], h.args.res, h.args.cohort, F).log
      [] h.op = "RemoveGroup" ->
           delete_group_and_users(d, h.args.cohort,
               SetToSeq(delete_groups_phase(d, h.args.cohort, F).users_to_delete), F).log
      [] h.op = "DeleteUser" ->
           delete_user(d, DeleteUserAwsUsername(h.args.names[1], h.args.cohort), F).log
      [] h.op = "AddLeaderToExistingGroup" ->
           add_leader_to_existing_group(d, h.args.cohort, h.args.names[1], F).log

\* The sets of at most n calls the service may reject during the handler h:
\* a call can be rejected only if the handler issues it.
RECURSIVE FaultPlans(_, _, _)
FaultPlans(d, h, n) ==
    IF n = 0 THEN {{}}
    ELSE LET P == FaultPlans(d, h, n - 1)
         IN P \cup UNION {{F \cup {k} : k \in LogKeys(Calls(d, h, F))} : F \in P}

\* the request of handler op for a cohort, names and resource types
Request(op, cohort, names, res) ==
    [op |-> op, args |-> [cohort |-> cohort, names |-> names, res |-> res]]

NoArgs == [cohort |-> <<>>, names |-> <<>>, res |-> <<>>]

Start(ops, faults) ==
    /\ dir = EmptyDir
    /\ last = [op |-> "none", args |-> NoArgs, ret |-> "none", log |-> <<>>,
               removed |-> <<>>, todel |-> {}, created |-> <<>>, messages |-> <<>>,
               pre |-> EmptyDir, repeat |-> FALSE, retry |-> FALSE,
               first_ret |-> "none"]
    /\ opsLeft = ops
    /\ faultsLeft = faults
    /\ raw = <<>>
    /\ norm = <<>>
    /\ thr = <<>>

\* The directory is empty and the service may reject calls.
Init == Start(MaxOps, MaxFaults)

\* The directory is empty and the service rejects no call.
InitReliable == Start(MaxOps + 1, 0)

\* The handler of request h returned r = [d, log, ret] under the fault
\* plan F.  repeat: the invocation before was the same call and the service
\* rejected none of its calls; retry: it was the same call and the service
\* rejected one of its calls; first_ret is what it returned.
Finish(h, r, removed, todel, created, messages, F) ==
    /\ dir' = r.d
    /\ last' = [op |-> h.op, args |-> h.args, ret |-> r.ret, log |-> r.log,
                removed |-> removed, todel |-> todel, created |-> created,
                messages |-> messages, pre |-> dir,
                repeat |-> /\ last.op = h.op
                           /\ last.args = h.args
                           /\ Clean(last.log),
                retry |-> /\ last.op = h.op
                          /\ last.args = h.args
                          /\ ~Clean(last.log),
                first_ret |-> last.ret]
    /\ opsLeft' = opsLeft - 1
    /\ faultsLeft' = faultsLeft - Cardinality(F)
    /\ UNCHANGED <<raw, norm, thr>>

GroupExists ==
    /\ opsLeft > 0
    /\ \E group_name \in RawCohorts \cup BlankCohorts :
         \E h \in {Request("GroupExists", group_name, <<>>, <<>>)} :
           \E F \in FaultPlans(dir, h, faultsLeft) :
             \E r \in {group_exists([d |-> dir, log |-> <<>>], group_name, F)} :
               Finish(h, r, <<>>, {}, <<>>, <<>>, F)

CreateGroupWithLeaders ==
    /\ opsLeft > 0
    /\ \E group_name \in RawCohorts, leaders \in NameListsOrEmpty,
           resource_types \in ResourceListsOrEmpty :
         \E h \in {Request("CreateGroupWithLeaders", group_name, leaders, resource_types)} :
           \E F \in FaultPlans(dir, h, faultsLeft) :
             \E r \in {CreateGroupWithLeadersReply(dir, resource_types, leaders,
                                                   group_name, F)} :
               Finish(h, r, <<>>, {}, <<>>, <<>>, F)

CreateUsersForGroup ==
    /\ opsLeft > 0
    /\ \E group_name \in RawCohorts, users \in NameListsOrEmpty :
         \E h \in {Request("CreateUsersForGroup", group_name, users, <<>>)} :
           \E F \in FaultPlans(dir, h, faultsLeft) :
             \E r \in {CreateUsersForGroupReply(dir, users, group_name, F)} :
               Finish(h, r, <<>>, {}, r.created, <<>>, F)

\* what AssignPolicies answers: success, or the error the manager raised
AssignPoliciesResult(r) ==
    [d |-> r.d, log |-> r.log, ret |-> IF r.err = "ok" THEN "returned" ELSE "raise"]

AssignPolicies ==
    /\ opsLeft > 0
    /\ \E group_name \in RawCohorts, resource_types \in ResourceListsOrEmpty :
         \E h \in {Request("AssignPolicies", group_name, <<>>, resource_types)} :
           \E F \in FaultPlans(dir, h, faultsLeft) :
             \E r \in {AssignPoliciesResult(assign_policies_to_target(
                           [d |-> dir, log |-> <<>>], resource_types, group_name, F))} :
               Finish(h, r, <<>>, {}, <<>>, <<>>, F)

RemoveGroup ==
    /\ opsLeft > 0
    /\ \E group_name \in RawCohorts :
         \E h \in {Request("RemoveGroup", group_name, <<>>, <<>>)} :
           \E F \in FaultPlans(dir, h, faultsLeft) :
             \E p1 \in {delete_groups_phase(dir, group_name, F)} :
               \E order \in Perms(p1.users_to_delete) :
                 \E r \in {delete_users_phase(p1, order, F)} :
                   Finish(h, r, r.removed, r.users_to_delete, <<>>, r.messages, F)

DeleteUser ==
    /\ opsLeft > 0
    /\ \E user_name \in RawMembers, group_name \in RawCohorts :
         \E h \in {Request("DeleteUser", group_name, <<user_name>>, <<>>)} :
           \E F \in FaultPlans(dir, h, faultsLeft) :
             \E r \in {delete_user(dir, DeleteUserAwsUsername(user_name, group_name), F)} :
               Finish(h, r, <<>>, {}, <<>>, <<>>, F)

AddLeaderToExistingGroup ==
    /\ opsLeft > 0
    /\ \E group_name \in RawCohorts, leader_name \in RawMembers :
         \E h \in {Request("AddLeaderToExistingGroup", group_name, <<leader_name>>, <<>>)} :
           \E F \in FaultPlans(dir, h, faultsLeft) :
             \E r \in {add_leader_to_existing_group(dir, group_name, leader_name, F)} :
               Finish(h, r, <<>>, {}, <<>>, <<>>, F)

Next ==
    \/ GroupExists
    \/ CreateGroupWithLeaders
    \/ CreateUsersForGroup
    \/ AssignPolicies
    \/ RemoveGroup
    \/ DeleteUser
    \/ AddLeaderToExistingGroup

Spec == Init /\ [][Next]_vars

SpecReliable == InitReliable /\ [][Next]_vars

\* Provisioning on a service that may reject two calls: one of
\* createEnvironment or of a createMembers step, one of the rollback.
InitProvision == Start(MaxOps, MaxFaults + 1)

NextProvision ==
    \/ CreateGroupWithLeaders
    \/ CreateUsersForGroup

SpecProvision == InitProvision /\ [][NextProvision]_vars

\* Cohort and member names that differ and yet meet in the names the
\* managers build: "Leaders-c" is the leader group of "c", and "a-b" in
\* "c" is spelt like "a" in "b-c".
AlikeCohorts == {<<"c">>, LeadersPrefix \o <<"c">>, <<"b", "-", "c">>}
AlikeMembers == {<<"a">>, <<"a", "-", "b">>}
AlikeResources == <<"ec2">>

CreateGroupWithLeadersAlike ==
    /\ opsLeft > 0
    /\ \E group_name \in AlikeCohorts, leader \in AlikeMembers :
         \E h \in {Request("CreateGroupWithLeaders", group_name, <<leader>>,
                            AlikeResources)} :
           \E r \in {CreateGroupWithLeadersReply(dir, AlikeResources, <<leader>>,
                                                 group_name, {})} :
             Finish(h, r, <<>>, {}, <<>>, <<>>, {})

CreateUsersForGroupAlike ==
    /\ opsLeft > 0
    /\ \E group_name \in AlikeCohorts, user \in AlikeMembers :
         \E h \in {Request("CreateUsersForGroup", group_name, <<user>>, <<>>)} :
           \E r \in {CreateUsersForGroupReply(dir, <<user>>, group_name, {})} :
             Finish(h, r, <<>>, {}, r.created, <<>>, {})

RemoveGroupAlike ==
    /\ opsLeft > 0
    /\ \E group_name \in AlikeCohorts :
         \E h \in {Request("RemoveGroup", group_name, <<>>, <<>>)} :
           \E p1 \in {delete_groups_phase(dir, group_name, {})} :
             \E order \in Perms(p1.users_to_delete) :
               \E r \in {delete_users_phase(p1, order, {})} :
                 Finish(h, r, r.removed, r.users_to_delete, <<>>, r.messages, {})

DeleteUserAlike ==
    /\ opsLeft > 0
    /\ \E user_name \in AlikeMembers, group_name \in AlikeCohorts :
         \E h \in {Request("DeleteUser", group_name, <<user_name>>, <<>>)} :
           \E r \in {delete_user(dir, DeleteUserAwsUsername(user_name, group_name), {})} :
             Finish(h, r, <<>>, {}, <<>>, <<>>, {})

NextAlike ==
    \/ CreateGroupWithLeadersAlike
    \/ CreateUsersForGroupAlike
    \/ RemoveGroupAlike
    \/ DeleteUserAlike

\* The service rejects no call; the requests name the cohorts and members
\* above.
SpecAlike == InitReliable /\ [][NextAlike]_vars

\* The life cycle test_02_full_lifecycle drives: CreateGroupWithLeaders,
\* CreateUsersForGroup and RemoveGroup for one cohort, with valid
\* arguments, on a service that rejects no call.
NextLifecycle ==
    /\ \/ opsLeft = MaxOps + 1 /\ CreateGroupWithLeaders
       \/ opsLeft = MaxOps /\ CreateUsersForGroup
       \/ opsLeft = MaxOps - 1 /\ RemoveGroup
    /\ last'.ret # "INVALID_ARGUMENT"
    /\ opsLeft <= MaxOps => last'.args.cohort = last.args.cohort

SpecLifecycle == InitReliable /\ [][NextLifecycle]_vars

(***************************************************************************)
(* normalize_name on its own: a name of at most MaxLen characters, one of  *)
(* each class the function tells apart, is normalised and the result       *)
(* normalised again.                                                       *)
(***************************************************************************)
NameAlphabet == {"a", "1", ".", "-", "_", " ", "#", "e_acute", "L_stroke"}

Names == UNION {[1..n -> NameAlphabet] : n \in 0..MaxLen}

InitNaming ==
    /\ raw \in Names
    /\ norm = <<>>
    /\ dir = EmptyDir
    /\ last = [op |-> "none", args |-> NoArgs, ret |-> "none", log |-> <<>>,
               removed |-> <<>>, todel |-> {}, created |-> <<>>, messages |-> <<>>,
               pre |-> EmptyDir, repeat |-> FALSE, retry |-> FALSE,
               first_ret |-> "none"]
    /\ opsLeft = 0
    /\ faultsLeft = 0
    /\ thr = <<>>

\* normalize_name applied to the name, then to its own result
NormalizeName ==
    /\ Len(norm) < 2
    /\ norm' = Append(norm, normalize_name(IF norm = <<>> THEN raw ELSE norm[Len(norm)]))
    /\ UNCHANGED <<dir, last, opsLeft, faultsLeft, raw, thr>>

SpecNaming == InitNaming /\ [][NormalizeName]_vars

(***************************************************************************)
(* Handlers running at the same time.  serve() gives the servicer a pool   *)
(* of worker threads and the managers hold no lock, so the remote calls of *)
(* two invocations interleave freely; one step is one remote call of one   *)
(* invocation, answered by the directory as it is at that moment.          *)
(* thr[t] = [op, pc, k, pend, todel, removed, msgs, ret]:                  *)
(*   pc      the call the invocation issues next                           *)
(*   k       delete: the group of groups_to_clean being cleaned            *)
(*   pend    delete: what the running loop still has to visit              *)
(*   todel, removed, msgs   users_to_delete, removed_users_list, messages  *)
(*   ret     "running", "returned" or "raise"                              *)
(***************************************************************************)
Threads == 1..2

\* the arguments of the concurrent invocations: cohort "_c", leader "a",
\* student "Ann Lee"
ConcCohort == <<"_", "c">>
ConcLeaders == <<<<"a">>>>
ConcStudents == <<<<"A", "n", "n", " ", "L", "e", "e">>>>
ConcResources == <<"xx", "ec2">>

\* One remote call of a straight-line handler and where the handler goes
\* on (so many calls further) when the directory accepts it, answers
\* EntityAlreadyExists, answers NoSuchEntity, or fails otherwise; 0: the
\* error is raised to the caller.
Ins(c, ok, exists, missing, other) ==
    [c |-> c, ok |-> ok, exists |-> exists, missing |-> missing, other |-> other]

Delta(ins, err) ==
    IF err = "ok" THEN ins.ok
    ELSE IF err = "EntityAlreadyExists" THEN ins.exists
    ELSE IF IsNoSuchEntity(err) THEN ins.missing
    ELSE ins.other

\* _create_iam_group_safe raising EntityAlreadyExists as well
InsCreateGroup_strict(name) == Ins(GroupCall("create_group", name), 1, 0, 0, 0)

\* _create_iam_group_safe: EntityAlreadyExists is passed over
InsCreateGroup(name) == Ins(GroupCall("create_group", name), 1, 1, 0, 0)

\* put_group_policy outside any handler that swallows: every error raises
InsPut(group, policy_name_iam) ==
    Ins(PolicyCall("put_group_policy", group, policy_name_iam,
                   policy_name_iam \o ".json"), 1, 0, 0, 0)

\* the policy names _apply_policies_from_files puts, in order
PoliciesToPut(policy_prefix, resource_types) ==
    LET kept == SelectSeq(resource_types, LAMBDA r :
                    /\ ~(r = "region" /\ policy_prefix = "leader")
                    /\ PolicyNameIam(policy_prefix, r) \o ".json" \in PolicyFiles)
    IN  [k \in 1..Len(kept) |-> PolicyNameIam(policy_prefix, kept[k])]

\* the calls of assign_policies_to_target: the student policies, the
\* group_exists check of the leader group, the leader policies when it exists
InsAssign(resource_types, group) ==
    LET sp == PoliciesToPut("student", StudentResources(resource_types))
        lp == PoliciesToPut("leader", LeaderResources(resource_types))
    IN  [k \in 1..Len(sp) |-> InsPut(group, sp[k])]
        \o <<Ins(GroupCall("get_group", LeadersPrefix \o group), 1, 0, Len(lp) + 1, 0)>>
        \o [k \in 1..Len(lp) |-> InsPut(LeadersPrefix \o group, lp[k])]

\* step 3 of create_group_with_leaders
InsChangePassword(group) ==
    IF "change_password_policy.json" \in PolicyFiles
    THEN <<InsPut(group, "change_password_policy"),
           InsPut(LeadersPrefix \o group, "change_password_policy")>>
    ELSE <<>>

\* step 4 of create_group_with_leaders for one leader: create_user,
\* create_login_profile, tag_user (after EntityAlreadyExists only), and
\* the two add_user_to_group calls, which pass over every error
InsLeader(group, leader_user) ==
    <<Ins(MemberCall("create_user", group, leader_user), 1, 2, 3, 3),
      Ins(UserCall("create_login_profile", leader_user), 2, 1, 2, 2),
      Ins(MemberCall("tag_user", group, leader_user), 1, 1, 1, 1),
      Ins(MemberCall("add_user_to_group", LeadersPrefix \o group, leader_user), 1, 1, 1, 1),
      Ins(MemberCall("add_user_to_group", group, leader_user), 1, 1, 1, 1)>>

RECURSIVE InsLeaders(_, _)
InsLeaders(leaders, group) ==
    IF leaders = <<>> THEN <<>>
    ELSE InsLeader(group, LeaderUserName(Head(leaders), group))
         \o InsLeaders(Tail(leaders), group)

\* the remote calls of create_group_with_leaders, in program order
CreateProgram(resource_types, leaders, group) ==
    <<InsCreateGroup(group), InsCreateGroup(LeadersPrefix \o group)>>
    \o InsAssign(resource_types, group)
    \o InsChangePassword(group)
    \o InsLeaders(leaders, group)

ConcProgram == CreateProgram(ConcResources, ConcLeaders, normalize_name(ConcCohort))

\* an invocation that has issued no call yet
ThreadStart(op) ==
    [op |-> op,
     pc |-> IF op = "create" THEN 1
            ELSE IF op = "delete" THEN "get_group" ELSE "delete_login_profile",
     k |-> 1,
     pend |-> <<>>, todel |-> {}, removed |-> <<>>, msgs |-> <<>>, ret |-> "running"]

\* create_group_with_leaders after the call at s.pc was answered err
CreateAfter(s, err) ==
    IF Delta(ConcProgram[s.pc], err) = 0 THEN [s EXCEPT !.ret = "raise"]
    ELSE [s EXCEPT !.pc = @ + Delta(ConcProgram[s.pc], err),
                   !.ret = IF s.pc + Delta(ConcProgram[s.pc], err) > Len(ConcProgram)
                           THEN "returned" ELSE "running"]

ConcGroups == groups_to_clean(normalize_name(ConcCohort))

\* the call delete_group_and_users issues at s.pc
DeleteCall(s) ==
    CASE s.pc \in {"get_group", "list_group_policies", "delete_group"} ->
           GroupCall(s.pc, ConcGroups[s.k])
      [] s.pc = "remove_user_from_group" ->
           MemberCall(s.pc, ConcGroups[s.k], Head(s.pend))
      [] s.pc = "delete_group_policy" ->
           PolicyCall(s.pc, ConcGroups[s.k], Head(s.pend), NoPol)
      [] OTHER -> UserCall(s.pc, Head(s.pend))

\* phase 1 goes on to the next group, or to phase 2 with the identities
\* of users_to_delete in the order the loop will meet them
NextGroup(s, messages) ==
    IF s.k = 1
    THEN {[s EXCEPT !.k = 2, !.pc = "get_group", !.pend = <<>>, !.msgs = messages]}
    ELSE IF s.todel = {}
         THEN {[s EXCEPT !.pc = "done", !.pend = <<>>, !.msgs = messages,
                         !.ret = "returned"]}
         ELSE {[s EXCEPT !.pc = "delete_login_profile", !.pend = order,
                         !.msgs = messages] : order \in Perms(s.todel)}

\* the except clause of phase 1
CleanExcept(s, err) ==
    NextGroup(s, IF IsNoSuchEntity(err) THEN s.msgs
                 ELSE Append(s.msgs, <<"Error", ConcGroups[s.k]>>))

\* removed_users_list with the identity appended whatever delete_user answered
RemovedAfter_any_answer(s, err) == Append(s.removed, Head(s.pend))

\* removed_users_list after delete_user of the identity at hand was
\* answered err: the append is skipped when the call raised
RemovedAfter(s, err) ==
    IF err = "ok" THEN Append(s.removed, Head(s.pend)) ELSE s.removed

\* delete_group_and_users after the call at s.pc was answered err by the
\* directory d: the states it can be in before its next call
DeleteAfter(d, s, err) ==
    CASE s.pc = "get_group" ->
           IF err # "ok" THEN CleanExcept(s, err)
           ELSE {[s EXCEPT !.todel = @ \cup UsersIn(d, ConcGroups[s.k]),
                           !.pend = SetToSeq(UsersIn(d, ConcGroups[s.k])),
                           !.pc = IF UsersIn(d, ConcGroups[s.k]) = {}
                                  THEN "list_group_policies"
                                  ELSE "remove_user_from_group"]}
      [] s.pc = "remove_user_from_group" ->
           {[s EXCEPT !.pend = Tail(@),
                      !.pc = IF Len(s.pend) = 1 THEN "list_group_policies" ELSE @]}
      [] s.pc = "list_group_policies" ->
           IF err # "ok" THEN CleanExcept(s, err)
           ELSE {[s EXCEPT !.pend = SetToSeq(PolicyNames(d, ConcGroups[s.k])),
                           !.pc = IF PolicyNames(d, ConcGroups[s.k]) = {}
                                  THEN "delete_group" ELSE "delete_group_policy"]}
      [] s.pc = "delete_group_policy" ->
           IF err # "ok" THEN CleanExcept(s, err)
           ELSE {[s EXCEPT !.pend = Tail(@),
                           !.pc = IF Len(s.pend) = 1 THEN "delete_group" ELSE @]}
      [] s.pc = "delete_group" ->
           IF err # "ok" THEN CleanExcept(s, err)
           ELSE NextGroup(s, Append(s.msgs, <<"deleted", ConcGroups[s.k]>>))
      [] s.pc = "delete_login_profile" -> {[s EXCEPT !.pc = "list_access_keys"]}
      [] s.pc = "list_access_keys" -> {[s EXCEPT !.pc = "list_user_policies"]}
      [] s.pc = "list_user_policies" -> {[s EXCEPT !.pc = "list_attached_user_policies"]}
      [] s.pc = "list_attached_user_policies" -> {[s EXCEPT !.pc = "delete_user"]}
      [] s.pc = "delete_user" ->
           {[s EXCEPT !.removed = RemovedAfter(s, err),
                      !.pend = Tail(@),
                      !.pc = IF Len(s.pend) = 1 THEN "done" ELSE "delete_login_profile",
                      !.ret = IF Len(s.pend) = 1 THEN "returned" ELSE "running"]}

\* the cohort as createEnvironment and createMembers leave it
ProvisionedDir ==
    create_users_for_group(
        create_group_with_leaders(EmptyDir, ConcResources, ConcLeaders, ConcCohort, {}).d,
        ConcStudents, ConcCohort, {}).d

\* Two invocations for the same cohort start together, on an empty
\* directory or on the provisioned cohort; last.pre keeps that directory.
InitConcurrent ==
    /\ dir \in {EmptyDir, ProvisionedDir}
    /\ thr \in [Threads -> {ThreadStart("create"), ThreadStart("delete")}]
    /\ last = [op |-> "concurrent", args |-> Request("", ConcCohort, ConcLeaders,
                                                     ConcResources).args,
               ret |-> "none", log |-> <<>>, removed |-> <<>>, todel |-> {},
               created |-> <<>>, messages |-> <<>>, pre |-> dir, repeat |-> FALSE,
               retry |-> FALSE, first_ret |-> "none"]
    /\ opsLeft = 0
    /\ faultsLeft = 0
    /\ raw = <<>>
    /\ norm = <<>>

\* one remote call of the createEnvironment invocation on thread t
CreateCall(t) ==
    /\ thr[t].op = "create"
    /\ thr[t].ret = "running"
    /\ \E c \in {ConcProgram[thr[t].pc].c} :
         /\ dir' = IF IamError(dir, c) = "ok" THEN IamApply(dir, c) ELSE dir
         /\ thr' = [thr EXCEPT ![t] = CreateAfter(thr[t], IamError(dir, c))]
    /\ UNCHANGED <<last, opsLeft, faultsLeft, raw, norm>>

\* one remote call of the deleteEnvironment invocation on thread t
DeleteCallStep(t) ==
    /\ thr[t].op = "delete"
    /\ thr[t].ret = "running"
    /\ \E c \in {DeleteCall(thr[t])} :
         /\ dir' = IF IamError(dir, c) = "ok" THEN IamApply(dir, c) ELSE dir
         /\ \E s \in DeleteAfter(dir, thr[t], IamError(dir, c)) :
              thr' = [thr EXCEPT ![t] = s]
    /\ UNCHANGED <<last, opsLeft, faultsLeft, raw, norm>>

NextConcurrent == \E t \in Threads : CreateCall(t) \/ DeleteCallStep(t)

SpecConcurrent == InitConcurrent /\ [][NextConcurrent]_vars

\* the identity the concurrent DeleteUser request names: leader "a" of "_c"
ConcIdentity == DeleteUserAwsUsername(ConcLeaders[1], ConcCohort)

\* the call UserManager.delete_user issues at s.pc
DeleteUserCall(s) ==
    IF s.pc = "remove_user_from_group"
    THEN MemberCall(s.pc, Head(s.pend), ConcIdentity)
    ELSE UserCall(s.pc, ConcIdentity)

\* the step after the one at pc when no group is left to leave
DeleteUserNextPc(pc) ==
    CASE pc = "delete_login_profile" -> "list_access_keys"
      [] pc = "list_access_keys" -> "list_groups_for_user"
      [] pc \in {"list_groups_for_user", "remove_user_from_group"} ->
           "list_attached_user_policies"
      [] pc = "list_attached_user_policies" -> "list_user_policies"
      [] pc = "list_user_policies" -> "list_mfa_devices"
      [] pc = "list_mfa_devices" -> "delete_user"
      [] pc = "delete_user" -> "done"

\* the except clause of delete_user: NoSuchEntity is answered False
DeleteUserExcept(s, err) ==
    [s EXCEPT !.ret = IF IsNoSuchEntity(err) THEN "False" ELSE "raise"]

\* UserManager.delete_user after the call at s.pc was answered err by the
\* directory d
DeleteUserAfter(d, s, err) ==
    IF err # "ok" /\ ~(s.pc = "delete_login_profile" /\ IsNoSuchEntity(err))
    THEN DeleteUserExcept(s, err)
    ELSE CASE s.pc = "list_groups_for_user" /\ GroupsOf(d, ConcIdentity) # {} ->
                [s EXCEPT !.pend = SetToSeq(GroupsOf(d, ConcIdentity)),
                          !.pc = "remove_user_from_group"]
           [] s.pc = "remove_user_from_group" /\ Len(s.pend) > 1 ->
                [s EXCEPT !.pend = Tail(@)]
           [] s.pc = "delete_user" ->
                [s EXCEPT !.pc = "done", !.ret = "True"]
           [] OTHER ->
                [s EXCEPT !.pend = <<>>, !.pc = DeleteUserNextPc(s.pc)]

\* one remote call of the DeleteUser invocation on thread t
DeleteUserCallStep(t) ==
    /\ thr[t].op = "deleteIdentity"
    /\ thr[t].ret = "running"
    /\ \E c \in {DeleteUserCall(thr[t])} :
         /\ dir' = IF IamError(dir, c) = "ok" THEN IamApply(dir, c) ELSE dir
         /\ thr' = [thr EXCEPT ![t] = DeleteUserAfter(dir, thr[t], IamError(dir, c))]
    /\ UNCHANGED <<last, opsLeft, faultsLeft, raw, norm>>

\* A DeleteUser invocation for the leader starts together with a
\* RemoveGroup or a second DeleteUser invocation, on the provisioned cohort.
InitConcurrentDeleteUser ==
    /\ dir = ProvisionedDir
    /\ thr \in [Threads -> {ThreadStart("delete"), ThreadStart("deleteIdentity")}]
    /\ thr[1].op = "deleteIdentity"
    /\ last = [op |-> "concurrent", args |-> Request("", ConcCohort, ConcLeaders,
                                                     ConcResources).args,
               ret |-> "none", log |-> <<>>, removed |-> <<>>, todel |-> {},
               created |-> <<>>, messages |-> <<>>, pre |-> dir, repeat |-> FALSE,
               retry |-> FALSE, first_ret |-> "none"]
    /\ opsLeft = 0
    /\ faultsLeft = 0
    /\ raw = <<>>
    /\ norm = <<>>

NextConcurrentDeleteUser == \E t \in Threads : DeleteCallStep(t) \/ DeleteUserCallStep(t)

SpecConcurrentDeleteUser == InitConcurrentDeleteUser /\ [][NextConcurrentDeleteUser]_vars

(***************************************************************************)
(* Properties.  They speak of the last invocation: its arguments, the      *)
(* remote calls it issued, what it returned, and the directory before      *)
(* (last.pre) and after (dir).                                             *)
(***************************************************************************)
\* the identity id the design gives a member of a cohort
IdentityId(member, cohort) ==
    normalize_name(member \o Hyphen \o normalize_name(cohort))

\* the two groups of the cohort the last invocation named
StudentGroup == normalize_name(last.args.cohort)
LeaderGroup == LeadersPrefix \o StudentGroup

\* the positions of the calls of operation op in the last invocation
Entries(op) == {k \in DOMAIN last.log : last.log[k].op = op}

\* the add-to-group calls the directory refused for want of the group
GroupMissingAt ==
    {k \in Entries("add_user_to_group") : last.log[k].err = "NoSuchEntity:group"}

CreateMembersGroupMissing ==
    last.op = "CreateUsersForGroup" /\ GroupMissingAt # {}

\* the service failed no call of the rollback for a reason of its own
\* (permissions, throttling, network)
RollbackAccepted ==
    \A k \in Entries("delete_login_profile") \cup Entries("delete_user") :
        last.log[k].err # "ServiceFailure"

FullyRolledBack ==
    /\ \A u \in Range(last.created) : u \notin dir.users
    /\ \A k \in GroupMissingAt : \A j \in Entries("create_user") : j < k
    /\ last.ret = "Operation aborted: Group does not exist"

CreateMembersOtherFailure ==
    /\ last.op = "CreateUsersForGroup"
    /\ \E k \in Entries("create_user") \cup Entries("create_login_profile")
                \cup Entries("add_user_to_group") :
          last.log[k].err \notin {"ok", "EntityAlreadyExists", "NoSuchEntity:group"}

\* C2: when createMembers fails on a member with any failure other than
\* 'already exists', every identity created during the call has been
\* deleted from the directory when the call returns.
C2_Original ==
    CreateMembersOtherFailure => \A u \in Range(last.created) : u \notin dir.users

\* C3: in deleteEnvironment every delete of an identity is issued only
\* after the identity's links to every group it belongs to were removed.
C3_Original ==
    last.op = "RemoveGroup" =>
        \A k \in Entries("delete_user") : last.log[k].linked = {}

\* C4: deleteEnvironment never aborts because one identity fails to delete:
\* a delete is attempted for every identity of the to-delete set, and the
\* returned list holds exactly the identities whose delete succeeded.
C4_TeardownContinues ==
    last.op = "RemoveGroup" =>
        /\ last.ret = "returned"
        /\ \A u \in last.todel : \E k \in Entries("delete_user") : last.log[k].usr = u
        /\ Range(last.removed) =
             {last.log[k].usr : k \in {j \in Entries("delete_user") : last.log[j].err = "ok"}}

C4_Witness ==
    /\ last.op = "RemoveGroup"
    /\ \E j, k \in Entries("delete_user") :
          /\ j < k
          /\ last.log[j].err # "ok"
          /\ last.log[k].err = "ok"
          /\ last.log[k].usr \in Range(last.removed)

\* the last invocation came with a required list empty
EmptyRequiredList ==
    \/ last.op = "CreateGroupWithLeaders"
          /\ (last.args.names = <<>> \/ last.args.res = <<>>)
    \/ last.op = "CreateUsersForGroup" /\ last.args.names = <<>>
    \/ last.op = "AssignPolicies" /\ last.args.res = <<>>

\* createEnvironment ran twice in sequence on the same accepted arguments
CreatedTwice ==
    /\ last.op = "CreateGroupWithLeaders"
    /\ ~EmptyRequiredList
    /\ last.repeat
    /\ Clean(last.log)

\* C5: createEnvironment called twice in sequence with the same cohort,
\* resource types and leaders raises no error on either call and leaves
\* the student group and the leader group with the members and policies
\* they had after the first call.
C5_CreateTwice ==
    CreatedTwice =>
        /\ last.first_ret = "returned"
        /\ last.ret = "returned"
        /\ {StudentGroup, LeaderGroup} \subseteq dir.groups
        /\ dir.groups = last.pre.groups
        /\ dir.member = last.pre.member
        /\ dir.gpol = last.pre.gpol

C5_Witness ==
    /\ CreatedTwice
    /\ last.ret = "returned"
    /\ UsersIn(dir, LeaderGroup) # {}
    /\ PolicyNames(dir, StudentGroup) # {}

CohortAbsent ==
    /\ last.op = "RemoveGroup"
    /\ StudentGroup \notin last.pre.groups
    /\ LeaderGroup \notin last.pre.groups

\* C6: deleteEnvironment on a cohort neither of whose groups exists returns
\* normally with an empty removed-identity list, reports no error for the
\* missing groups and changes nothing in the directory.
C6_DeleteAbsentCohort ==
    CohortAbsent =>
        /\ last.ret = "returned"
        /\ last.removed = <<>>
        /\ dir = last.pre
        /\ Clean(last.log) => last.messages = <<>>

C6_Witness ==
    /\ CohortAbsent
    /\ last.ret = "returned"
    /\ last.pre.groups # {}
    /\ last.pre.users # {}

\* C7: after a successful createEnvironment every leader it names is a
\* member of both groups of the cohort; after a successful createMembers
\* every identity it created is a member of the student group only.
C7_Original ==
    /\ (last.op = "CreateGroupWithLeaders" /\ last.ret = "returned") =>
          \A i \in DOMAIN last.args.names :
              {StudentGroup, LeaderGroup} \subseteq
                  GroupsOf(dir, LeaderUserName(last.args.names[i], StudentGroup))
    /\ (last.op = "CreateUsersForGroup" /\ last.ret = "Successfully processed") =>
          \A u \in Range(last.created) : GroupsOf(dir, u) = {StudentGroup}

\* C8: deleteEnvironment issues at most one delete for an identity, also
\* for one that is a member of both groups, and the returned list never
\* holds an identity twice.
C8_DeletedOnce ==
    last.op = "RemoveGroup" =>
        /\ \A i, j \in DOMAIN last.removed :
              last.removed[i] = last.removed[j] => i = j
        /\ \A j, k \in Entries("delete_user") :
              last.log[j].usr = last.log[k].usr => j = k

C8_Witness ==
    /\ last.op = "RemoveGroup"
    /\ \E u \in Range(last.removed) :
          {StudentGroup, LeaderGroup} \subseteq GroupsOf(last.pre, u)

AssignedTwice ==
    /\ last.op = "AssignPolicies"
    /\ last.repeat
    /\ Clean(last.log)
    /\ {StudentGroup, LeaderGroup} \subseteq last.pre.groups

\* C9: assignPolicies called twice with the same resource types on a
\* provisioned cohort leaves each group with the (policy name, document)
\* attachments it had after the first call.
C9_AssignTwice ==
    AssignedTwice =>
        /\ last.first_ret = "returned"
        /\ last.ret = "returned"
        /\ dir.gpol = last.pre.gpol

C9_Witness ==
    /\ AssignedTwice
    /\ PolicyNames(dir, StudentGroup) # {}
    /\ PolicyNames(dir, LeaderGroup) # {}

\* the create_user calls of the last invocation, in order
CreateTargets == SelectSeq(last.log, LAMBDA e : e.op = "create_user")

\* C10: the identity id used by createMembers, by createEnvironment for
\* its leaders, by addLeaderToExistingEnvironment and by the DeleteUser
\* entry point is normalize(member + "-" + normalize(cohort)).
C10_SameIdentityId ==
    /\ last.op \in {"CreateUsersForGroup", "CreateGroupWithLeaders",
                    "AddLeaderToExistingGroup"} =>
          /\ Len(CreateTargets) <= Len(last.args.names)
          /\ \A i \in DOMAIN CreateTargets :
                CreateTargets[i].usr = IdentityId(last.args.names[i], last.args.cohort)
    /\ last.op = "DeleteUser" =>
          /\ last.log # <<>>
          /\ \A k \in DOMAIN last.log :
                last.log[k].usr = IdentityId(last.args.names[1], last.args.cohort)

C10_Witness ==
    /\ last.op = "DeleteUser"
    /\ last.ret = "True"
    /\ last.args.cohort # normalize_name(last.args.cohort)
    /\ last.args.names[1] # normalize_name(last.args.names[1])
    /\ IdentityId(last.args.names[1], last.args.cohort) \in last.pre.users
    /\ IdentityId(last.args.names[1], last.args.cohort) \notin dir.users

\* a name none of whose characters normalize_name keeps
FullyInvalid(name) == \A k \in DOMAIN name : name[k] \in {"#", "L_stroke"}

LabGrp1 == <<"L", "a", "b", "-", "G", "r", "p", "-", "1">>
LeadersLabGrp1 == <<"L", "e", "a", "d", "e", "r", "s", "-">> \o LabGrp1
AnnLeeLabGrp1 == <<"A", "n", "n", "-", "L", "e", "e", "-">> \o LabGrp1

CreatesScenario ==
    /\ last.op = "CreateGroupWithLeaders"
    /\ last.args.cohort = <<"L", "a", "b", " ", "G", "r", "p", " ", "#", "1">>

\* C12: createEnvironment names the student group by the normalised cohort
\* name and the leader group "Leaders-" followed by it; for the cohort
\* "Lab Grp #1" these are "Lab-Grp-1" and "Leaders-Lab-Grp-1", and its
\* leader "Ann Lee" gets the identity id "Ann-Lee-Lab-Grp-1".
C12_ScenarioNames ==
    (last.op = "CreateGroupWithLeaders" /\ ~EmptyRequiredList) =>
        /\ last.log[1].op = "create_group"
        /\ last.log[1].grp = normalize_name(last.args.cohort)
        /\ \A k \in Entries("create_group") :
              k > 1 => last.log[k].grp = LeadersPrefix \o normalize_name(last.args.cohort)
        /\ CreatesScenario =>
              /\ last.log[1].grp = LabGrp1
              /\ \A k \in Entries("create_group") : k > 1 => last.log[k].grp = LeadersLabGrp1
              /\ \A i \in DOMAIN CreateTargets :
                    last.args.names[i] = <<"A", "n", "n", " ", "L", "e", "e">>
                        => CreateTargets[i].usr = AnnLeeLabGrp1

C12_Witness ==
    /\ CreatesScenario
    /\ last.ret = "returned"
    /\ {LabGrp1, LeadersLabGrp1} \subseteq dir.groups
    /\ AnnLeeLabGrp1 \in dir.users
    /\ GroupsOf(dir, AnnLeeLabGrp1) = {LabGrp1, LeadersLabGrp1}

\* C13: exists answers false without a directory call when the normalised
\* name is empty, false when the directory reports the group absent, true
\* when the group is there, raises on every other directory error, and
\* never changes the directory.
C13_GroupExists ==
    last.op = "GroupExists" =>
        /\ dir = last.pre
        /\ StudentGroup = <<>> => (last.log = <<>> /\ last.ret = "False")
        /\ (StudentGroup # <<>> /\ Clean(last.log)) =>
              /\ Len(last.log) = 1
              /\ last.ret = IF StudentGroup \in last.pre.groups THEN "True" ELSE "False"
        /\ ~Clean(last.log) => last.ret = "raise"

C13_Witness ==
    /\ last.op = "GroupExists"
    /\ last.ret = "True"
    /\ last.args.cohort # StudentGroup
    /\ StudentGroup \in dir.groups

\* the position of the one call of operation op in the last invocation
Pos(op) == CHOOSE k \in Entries(op) : TRUE

\* the steps of deleteIdentity before the delete of the identity, in order
TeardownSteps ==
    <<"delete_login_profile", "list_access_keys", "list_groups_for_user",
      "list_attached_user_policies", "list_user_policies", "list_mfa_devices">>

DeletedIdentity == DeleteUserAwsUsername(last.args.names[1], last.args.cohort)

\* C15: deleteIdentity returns false, without raising and without changing
\* the directory, when the identity does not exist; returns true when the
\* identity existed and was deleted; raises on any other directory failure.
C15_DeleteIdentityOutcome ==
    last.op = "DeleteUser" =>
        /\ (DeletedIdentity \notin last.pre.users /\ Clean(last.log)) =>
              (last.ret = "False" /\ dir = last.pre)
        /\ (DeletedIdentity \in last.pre.users /\ Clean(last.log)) => last.ret = "True"
        /\ last.ret = "True" =>
              (DeletedIdentity \in last.pre.users /\ DeletedIdentity \notin dir.users)
        /\ ~Clean(last.log) => last.ret = "raise"
        /\ last.ret = "raise" => ~Clean(last.log)

C15_Witness ==
    /\ last.op = "DeleteUser"
    /\ last.ret = "False"
    /\ last.pre.users # {}
    /\ DeletedIdentity \notin last.pre.users
    /\ dir = last.pre

\* the policy names the last invocation put on group g with success
\* (the change-password policy of createEnvironment apart)
Attached(g) ==
    {last.log[k].pol : k \in {j \in Entries("put_group_policy") :
                                 /\ last.log[j].grp = g
                                 /\ last.log[j].err = "ok"}}
        \ {"change_password_policy"}

\* the policy names of the resource types rs that the catalog holds
InCatalog(policy_prefix, rs) ==
    {p \in {PolicyNameIam(policy_prefix, r) : r \in rs} : p \o ".json" \in PolicyFiles}

\* the last invocation was an assignment that reported success
Assigned ==
    /\ last.op \in {"CreateGroupWithLeaders", "AssignPolicies"}
    /\ last.ret = "returned"

\* C16: createEnvironment and assignPolicies process the student group with
\* resourceTypes plus "region" and the leader group with resourceTypes minus
\* "region"; no leader group ever carries regional_restriction_policy.
C16_RegionForStudentsOnly ==
    /\ \A g \in dir.groups :
          (Len(g) > Len(LeadersPrefix) /\ SubSeq(g, 1, Len(LeadersPrefix)) = LeadersPrefix)
              => "regional_restriction_policy" \notin PolicyNames(dir, g)
    /\ \A k \in Entries("put_group_policy") :
          last.log[k].grp = LeaderGroup => last.log[k].pol # "regional_restriction_policy"
    /\ Assigned =>
          /\ "regional_restriction_policy" \in PolicyNames(dir, StudentGroup)
          /\ Attached(StudentGroup)
                = InCatalog("student", Range(last.args.res) \cup {"region"})
          /\ Attached(LeaderGroup)
                = IF LeaderGroup \in dir.groups
                  THEN InCatalog("leader", Range(last.args.res) \ {"region"})
                  ELSE {}

C16_Witness ==
    /\ Assigned
    /\ "region" \notin Range(last.args.res)
    /\ LeaderGroup \in dir.groups
    /\ Attached(LeaderGroup) # {}
    /\ "regional_restriction_policy" \in PolicyNames(dir, StudentGroup)

\* the last invocation ran the PolicyAssigner on a student group that exists
AssignerRan ==
    \/ last.op = "CreateGroupWithLeaders" /\ Entries("put_group_policy") # {}
    \/ last.op = "AssignPolicies" /\ StudentGroup \in last.pre.groups

\* the resource types of the last invocation without a catalog entry
NotInCatalog(policy_prefix) ==
    {r \in Range(last.args.res) :
        PolicyNameIam(policy_prefix, r) \o ".json" \notin PolicyFiles}

\* C17: the PolicyAssigner skips a resource type that has no catalog entry
\* without an error and without a directory call for it, and still
\* attaches the other resource types of the call.
C17_MissingCatalogEntrySkipped ==
    /\ \A k \in Entries("put_group_policy") :
          last.log[k].pol \o ".json" \in PolicyFiles
    /\ (AssignerRan /\ Clean(last.log)) =>
          /\ last.ret = "returned"
          /\ \A k \in DOMAIN last.log : last.log[k].op = "put_group_policy"
                                          => last.log[k].err = "ok"
          /\ InCatalog("student", Range(last.args.res))
                \subseteq PolicyNames(dir, StudentGroup)
          /\ LeaderGroup \in dir.groups =>
                InCatalog("leader", Range(last.args.res) \ {"region"})
                    \subseteq PolicyNames(dir, LeaderGroup)

C17_Witness ==
    /\ AssignerRan
    /\ last.ret = "returned"
    /\ last.args.res[1] \in NotInCatalog("student")
    /\ "student_ec2_policy" \in Attached(StudentGroup)

\* the attach calls of the last invocation that the directory failed
FailedAttach == {k \in Entries("put_group_policy") : last.log[k].err # "ok"}

\* C18: a directory failure while attaching the policy of the k-th resource
\* type makes the assignment call raise, no attach is attempted for a later
\* resource type, and the policies attached before stay attached.
C18_AttachFailureAborts ==
    last.op \in {"AssignPolicies", "CreateGroupWithLeaders"} =>
        \A k \in FailedAttach :
            /\ last.ret = "raise"
            /\ k = Len(last.log)
            /\ \A j \in Entries("put_group_policy") :
                  j < k => /\ last.log[j].err = "ok"
                           /\ last.log[j].pol \in PolicyNames(dir, last.log[j].grp)

C18_Witness ==
    /\ last.op = "AssignPolicies"
    /\ \E k \in FailedAttach :
          /\ last.log[k].err = "ServiceFailure"
          /\ \E j \in Entries("put_group_policy") :
                /\ j < k
                /\ last.log[j].grp = last.log[k].grp
                /\ last.log[j].pol \notin PolicyNames(last.pre, last.log[j].grp)
                /\ last.log[j].pol \in PolicyNames(dir, last.log[j].grp)

\* C19: an exposed operation called with a required list empty reports the
\* invalid-argument outcome, makes no directory call and changes nothing.
C19_Original ==
    EmptyRequiredList =>
        /\ last.ret = "INVALID_ARGUMENT"
        /\ last.log = <<>>
        /\ dir = last.pre

\* the last invocation reported a failure to its caller: the managers
\* raise, createMembers answers its 'Operation aborted' message
ReportsFailure ==
    IF last.op = "CreateUsersForGroup"
    THEN last.ret \notin {"Successfully processed", "INVALID_ARGUMENT"}
    ELSE last.ret = "raise"

\* C20: a failure of the remote service in a step of createEnvironment,
\* createMembers, assignPolicies or addLeaderToExistingEnvironment makes
\* the top-level call report failure; it is never swallowed into success.
C20_Original ==
    (/\ last.op \in {"CreateGroupWithLeaders", "CreateUsersForGroup",
                      "AssignPolicies", "AddLeaderToExistingGroup"}
     /\ ~Clean(last.log))
        => ReportsFailure

\* every concurrent invocation has come to its end
AllDone == \A t \in Threads : thr[t].ret # "running"
Both(op) == \A t \in Threads : thr[t].op = op

\* the identities that were members of a group of the cohort at the start
CohortMembers == UNION {UsersIn(last.pre, ConcGroups[k]) : k \in DOMAIN ConcGroups}

\* C21: two createEnvironment calls for the same cohort and arguments that
\* run at the same time both complete without error, under every
\* interleaving of their remote calls, and leave the state one call
\* leaves; two deleteEnvironment calls both complete without raising and
\* leave both groups and every member identity absent.
C21_ConcurrentSameOperation ==
    /\ (AllDone /\ Both("create")) =>
          /\ \A t \in Threads : thr[t].ret = "returned"
          /\ dir = create_group_with_leaders(last.pre, ConcResources, ConcLeaders,
                                             ConcCohort, {}).d
    /\ (AllDone /\ Both("delete")) =>
          /\ \A t \in Threads : thr[t].ret = "returned"
          /\ \A k \in DOMAIN ConcGroups : ConcGroups[k] \notin dir.groups
          /\ CohortMembers \cap dir.users = {}

C21_Witness ==
    /\ AllDone
    /\ Both("delete")
    /\ CohortMembers # {}
    /\ \A t \in Threads : thr[t].removed # <<>>

\* the directory createEnvironment / deleteEnvironment leaves when it runs
\* alone from the directory d
AfterCreate(d) ==
    create_group_with_leaders(d, ConcResources, ConcLeaders, ConcCohort, {}).d
AfterDelete(d) ==
    delete_group_and_users(d, ConcCohort,
        SetToSeq(delete_groups_phase(d, ConcCohort, {}).users_to_delete), {}).d

\* C22: createEnvironment and deleteEnvironment for the same cohort that
\* run at the same time leave, under every interleaving of their remote
\* calls, the directory of one of the two serial orders.
C22_Original ==
    (AllDone /\ ~Both("create") /\ ~Both("delete")) =>
        dir \in {AfterDelete(AfterCreate(last.pre)), AfterCreate(AfterDelete(last.pre))}

\* the last invocation repeated, with the service working, the call that
\* the service had failed on the empty directory
Reinvoked ==
    /\ last.op \in {"CreateGroupWithLeaders", "CreateUsersForGroup"}
    /\ last.retry
    /\ Clean(last.log)
    /\ opsLeft = MaxOps - 2

\* the directory one failure-free invocation of the last request leaves
FailureFree ==
    IF last.op = "CreateGroupWithLeaders"
    THEN CreateGroupWithLeadersReply(EmptyDir, last.args.res, last.args.names,
                                     last.args.cohort, {}).d
    ELSE CreateUsersForGroupReply(EmptyDir, last.args.names, last.args.cohort, {}).d

\* C23: after createEnvironment or createMembers failed or lost a step,
\* invoking it again with the same arguments once the service works brings
\* the cohort to the state of one failure-free invocation.
C23_Original == Reinvoked => dir = FailureFree

\* the identity ids of the names of the last request
NamedIdentities ==
    {IdentityId(last.args.names[i], last.args.cohort) : i \in DOMAIN last.args.names}

\* C24: in the failure-free sequence createEnvironment, createMembers,
\* deleteEnvironment for one cohort, the first step leaves both groups and
\* every leader identity, the second reports 'Successfully processed' and
\* leaves every student identity, the third reports success and leaves
\* neither group nor any of these identities.
C24_Lifecycle ==
    /\ opsLeft = MaxOps =>
          /\ last.ret = "returned"
          /\ {StudentGroup, LeaderGroup} \subseteq dir.groups
          /\ NamedIdentities \subseteq dir.users
    /\ opsLeft = MaxOps - 1 =>
          /\ last.ret = "Successfully processed"
          /\ NamedIdentities \subseteq dir.users
          /\ last.pre.users \subseteq dir.users
    /\ opsLeft = MaxOps - 2 =>
          /\ last.ret = "returned"
          /\ \A k \in DOMAIN last.messages : last.messages[k][1] = "deleted"
          /\ StudentGroup \notin dir.groups
          /\ LeaderGroup \notin dir.groups
          /\ last.pre.users \cap dir.users = {}
          /\ Range(last.removed) = last.pre.users

C24_Witness ==
    /\ opsLeft = MaxOps - 2
    /\ last.op = "RemoveGroup"
    /\ \E u \in last.pre.users : GroupsOf(last.pre, u) = {StudentGroup}
    /\ \E u \in last.pre.users : GroupsOf(last.pre, u) = {StudentGroup, LeaderGroup}
    /\ dir = EmptyDir

\* the last invocation added a leader to a cohort both of whose groups exist
LeaderAdded ==
    /\ last.op = "AddLeaderToExistingGroup"
    /\ {StudentGroup, LeaderGroup} \subseteq last.pre.groups

\* the identity of the leader the last invocation named
AddedLeader == IdentityId(last.args.names[1], last.args.cohort)

\* C25: after addLeaderToExistingEnvironment on a provisioned cohort the
\* leader identity exists and is in the leader group and in the student
\* group, whether or not it existed or was a member before; an identity
\* that existed only has its cohort tag refreshed; a second call changes
\* nothing.
C25_AddLeader ==
    LeaderAdded =>
        /\ AddedLeader \in dir.users
        /\ {StudentGroup, LeaderGroup} \subseteq GroupsOf(dir, AddedLeader)
        /\ <<AddedLeader, StudentGroup>> \in dir.tag
        /\ dir.groups = last.pre.groups /\ dir.gpol = last.pre.gpol
        /\ dir.member = last.pre.member
               \cup {<<StudentGroup, AddedLeader>>, <<LeaderGroup, AddedLeader>>}
        /\ AddedLeader \in last.pre.users =>
              /\ dir.users = last.pre.users
              /\ dir.profile = last.pre.profile
        /\ AddedLeader \notin last.pre.users =>
              /\ dir.users = last.pre.users \cup {AddedLeader}
              /\ dir.profile = last.pre.profile \cup {AddedLeader}
        /\ last.repeat => dir = last.pre

C25_Witness ==
    /\ LeaderAdded
    /\ AddedLeader \in last.pre.users
    /\ GroupsOf(last.pre, AddedLeader) = {StudentGroup}
    /\ GroupsOf(dir, AddedLeader) = {StudentGroup, LeaderGroup}

\* the identities the last invocation created
CreatedNow ==
    {last.log[k].usr : k \in {j \in Entries("create_user") : last.log[j].err = "ok"}}

\* the last invocation was a creation call that came to its end
CreationCompleted ==
    \/ last.op = "CreateGroupWithLeaders" /\ last.ret = "returned"
    \/ last.op = "CreateUsersForGroup" /\ last.ret # "INVALID_ARGUMENT"
    \/ last.op = "AddLeaderToExistingGroup"

\* C26: every identity that a completed createEnvironment, createMembers
\* or addLeaderToExistingEnvironment call created and that exists after it
\* has a credential (with the forced-reset flag).
C26_Original ==
    CreationCompleted => (CreatedNow \cap dir.users) \subseteq dir.profile

\* the calls of the last invocation that the service failed
FailedKeys ==
    {<<last.log[k].op, last.log[k].grp, last.log[k].usr, last.log[k].pol>> :
        k \in {j \in DOMAIN last.log : last.log[j].err = "ServiceFailure"}}

\* the directory phase 1 of the last deleteEnvironment left to phase 2
AfterPhase1 == delete_groups_phase(last.pre, last.args.cohort, FailedKeys).d

\* C27: the teardown deleteEnvironment performs on an identity of the
\* to-delete set is the full teardown of deleteIdentity: from the same
\* directory both leave the same directory and both succeed or both fail.
C27_Original ==
    last.op = "RemoveGroup" =>
        \A u \in last.todel :
            /\ delete_one_user([d |-> AfterPhase1, log |-> <<>>], u, {}).d
                  = delete_user(AfterPhase1, u, {}).d
            /\ (delete_one_user([d |-> AfterPhase1, log |-> <<>>], u, {}).err = "ok")
                  = (delete_user(AfterPhase1, u, {}).ret = "True")

\* C28: after every successful createEnvironment call both the student
\* group and the leader group carry the policy change_password_policy.
C28_ChangePasswordOnBothGroups ==
    (last.op = "CreateGroupWithLeaders" /\ last.ret = "returned") =>
        /\ "change_password_policy" \in PolicyNames(dir, StudentGroup)
        /\ "change_password_policy" \in PolicyNames(dir, LeaderGroup)

\* a successful createEnvironment on groups that did not carry the policy
C28_Witness ==
    /\ last.op = "CreateGroupWithLeaders" /\ last.ret = "returned"
    /\ "change_password_policy" \notin PolicyNames(last.pre, StudentGroup)
    /\ "change_password_policy" \notin PolicyNames(last.pre, LeaderGroup)
    /\ "change_password_policy" \in PolicyNames(dir, StudentGroup)
    /\ "change_password_policy" \in PolicyNames(dir, LeaderGroup)

\* the create_user calls of the last createMembers that were answered
\* 'already exists'
SkippedAt ==
    {k \in Entries("create_user") : last.log[k].err = "EntityAlreadyExists"}

\* the position in the list of the member whose create_user is entry k
MemberAt(k) == Cardinality({j \in Entries("create_user") : j <= k})

\* credential, memberships and tag of u are in dir what they were before
Untouched(u) ==
    /\ u \in dir.users
    /\ (u \in dir.profile) = (u \in last.pre.profile)
    /\ GroupsOf(dir, u) = GroupsOf(last.pre, u)
    /\ {t \in dir.tag : t[1] = u} = {t \in last.pre.tag : t[1] = u}

\* C29: in createMembers a member whose create step is answered 'already
\* exists' is skipped: no further call is made for it and no rollback
\* starts, the next call is the create of the next member of the list (or
\* the call ends with success after the last member), and an identity that
\* existed before the call keeps its credential and memberships.
C29_AlreadyExistsSkipped ==
    last.op = "CreateUsersForGroup" =>
        \A k \in SkippedAt :
            /\ IF MemberAt(k) < Len(last.args.names)
               THEN /\ k + 1 \in DOMAIN last.log
                    /\ last.log[k + 1].op = "create_user"
                    /\ last.log[k + 1].usr =
                          CreateUsersUserName(last.args.names[MemberAt(k) + 1],
                                              StudentGroup)
               ELSE /\ k = Len(last.log)
                    /\ last.ret = "Successfully processed"
            /\ last.log[k].usr \in last.pre.users => Untouched(last.log[k].usr)

\* the first member existed before the call and was skipped, the second
\* one was then created
C29_Witness ==
    /\ last.op = "CreateUsersForGroup"
    /\ Len(last.args.names) = 2
    /\ 1 \in SkippedAt
    /\ last.log[1].usr \in last.pre.profile
    /\ GroupsOf(last.pre, last.log[1].usr) # {}
    /\ Len(last.log) > 1
    /\ last.log[2].op = "create_user" /\ last.log[2].err = "ok"
    /\ last.log[2].usr \in dir.users \ last.pre.users
    /\ last.ret = "Successfully processed"

\* the steps of the last createMembers that failed with something other
\* than 'already exists' (the loop ends at the first one)
PrimaryFailures ==
    {k \in Entries("create_user") \cup Entries("create_login_profile")
            \cup Entries("add_user_to_group") :
        last.log[k].err \notin {"ok", "EntityAlreadyExists"}}

\* C30: after the failed step of createMembers the rollback issues, for
\* each identity of the created list in turn, the delete of its credential
\* and then the delete of the identity, whatever the earlier rollback calls
\* answered; a delete issued after an accepted credential delete is never
\* refused for the credential; and the call returns the 'Operation
\* aborted' result of the failed step.
C30_RollbackBestEffort ==
    last.op = "CreateUsersForGroup" =>
        \A p \in PrimaryFailures :
            /\ Len(last.log) = p + 2 * Len(last.created)
            /\ \A i \in DOMAIN last.created :
                  /\ last.log[p + 2 * i - 1].op = "delete_login_profile"
                  /\ last.log[p + 2 * i - 1].usr = last.created[i]
                  /\ last.log[p + 2 * i].op = "delete_user"
                  /\ last.log[p + 2 * i].usr = last.created[i]
                  /\ (/\ last.log[p + 2 * i - 1].err # "ServiceFailure"
                      /\ last.log[p + 2 * i].linked = {})
                        => last.log[p + 2 * i].err \in {"ok", "ServiceFailure"}
            /\ last.ret = IF last.log[p].err = "NoSuchEntity:group"
                          THEN "Operation aborted: Group does not exist"
                          ELSE "Operation aborted: Error"

\* a rollback of two identities: the delete of the first was refused, the
\* second was deleted all the same
C30_Witness ==
    /\ last.op = "CreateUsersForGroup"
    /\ PrimaryFailures # {}
    /\ Len(last.created) = 2
    /\ last.log[Len(last.log) - 2].op = "delete_user"
    /\ last.log[Len(last.log) - 2].err # "ok"
    /\ last.log[Len(last.log)].op = "delete_user"
    /\ last.log[Len(last.log)].err = "ok"
    /\ last.created[1] \in dir.users
    /\ last.created[2] \notin dir.users
    /\ last.ret = "Operation aborted: Error"

\* the calls of operation op on group g in the last invocation
GroupEntries(op, g) == {k \in Entries(op) : last.log[k].grp = g}

\* the calls of phase 1 on group g come in the order get_group, the
\* removal of every member, list_group_policies, the delete of every
\* inline policy, delete_group
CleanedInOrder(g) ==
    /\ Cardinality(GroupEntries("get_group", g)) = 1
    /\ \A k \in GroupEntries("remove_user_from_group", g) :
          /\ \A j \in GroupEntries("get_group", g) : j < k
          /\ \A j \in GroupEntries("list_group_policies", g) : k < j
    /\ \A k \in GroupEntries("delete_group_policy", g) :
          \A j \in GroupEntries("list_group_policies", g) : j < k
    /\ \A k \in GroupEntries("delete_group", g) :
          /\ {last.log[j].usr : j \in GroupEntries("remove_user_from_group", g)}
                = UsersIn(last.pre, g)
          /\ \A j \in GroupEntries("remove_user_from_group", g) : j < k
          /\ Cardinality(GroupEntries("list_group_policies", g)) = 1
          /\ {last.log[j].pol : j \in GroupEntries("delete_group_policy", g)}
                = PolicyNames(last.pre, g)
          /\ \A j \in GroupEntries("delete_group_policy", g) :
                j < k /\ last.log[j].err = "ok"

\* the calls of phase 1 of the last deleteEnvironment
Phase1Entries ==
    Entries("get_group") \cup Entries("remove_user_from_group")
        \cup Entries("list_group_policies") \cup Entries("delete_group_policy")
        \cup Entries("delete_group")

\* C31: deleteEnvironment processes the student group and then the leader
\* group, each with the calls in the order members, inline policies, group;
\* delete_group is issued only after a removal was issued for every member
\* and every inline policy was deleted; the leader group is processed
\* whatever the processing of the student group met.
C31_GroupsCleanedInOrder ==
    last.op = "RemoveGroup" =>
        /\ CleanedInOrder(StudentGroup)
        /\ CleanedInOrder(LeaderGroup)
        /\ \A i, k \in Phase1Entries :
              (last.log[i].grp = StudentGroup /\ last.log[k].grp = LeaderGroup)
                  => i < k

\* the service failed the listing of the student group, which stays, and
\* the leader group with members and policies was deleted all the same
C31_Witness ==
    /\ last.op = "RemoveGroup"
    /\ \E k \in GroupEntries("get_group", StudentGroup) :
          last.log[k].err = "ServiceFailure"
    /\ StudentGroup \in dir.groups
    /\ UsersIn(last.pre, LeaderGroup) # {}
    /\ PolicyNames(last.pre, LeaderGroup) # {}
    /\ LeaderGroup \in last.pre.groups \ dir.groups

\* assignPolicies left groups, identities, credentials, memberships and
\* tags as they were, and every attachment it did not put again
AssignFrame ==
    /\ dir.groups = last.pre.groups
    /\ dir.users = last.pre.users
    /\ dir.profile = last.pre.profile
    /\ dir.member = last.pre.member
    /\ dir.tag = last.pre.tag
    /\ \A t \in last.pre.gpol :
          \/ t \in dir.gpol
          \/ \E k \in Entries("put_group_policy") :
                last.log[k].grp = t[1] /\ last.log[k].pol = t[2]
    /\ \A g \in dir.groups : PolicyNames(last.pre, g) \subseteq PolicyNames(dir, g)

\* assignPolicies attached the student policies only and raised nothing
StudentPoliciesOnly ==
    /\ last.ret = "returned"
    /\ \A k \in Entries("put_group_policy") :
          last.log[k].grp = StudentGroup /\ last.log[k].err = "ok"
    /\ InCatalog("student", Range(StudentResources(last.args.res)))
          \subseteq PolicyNames(dir, StudentGroup)

C33_Original ==
    \A c \in RawCohorts :
        LeadersPrefix \o normalize_name(c) \in dir.groups
            => normalize_name(c) \in dir.groups

\* the delete calls of the last invocation's rollback
RollbackEntries == Entries("delete_login_profile") \cup Entries("delete_user")

\* C34: the rollback of createMembers issues no call on an identity that
\* existed before the call, and every such identity is afterwards what it
\* was before: it exists, with the same credential, memberships and tag.
C34_RollbackSparesExisting ==
    last.op = "CreateUsersForGroup" =>
        /\ \A k \in RollbackEntries : last.log[k].usr \notin last.pre.users
        /\ \A u \in last.pre.users : Untouched(u)

\* the first member existed and was skipped, the second one was created,
\* its step failed and the rollback deleted it
C34_Witness ==
    /\ last.op = "CreateUsersForGroup"
    /\ 1 \in SkippedAt
    /\ last.log[1].usr \in last.pre.users
    /\ PrimaryFailures # {}
    /\ \E k \in Entries("delete_user") :
          last.log[k].err = "ok" /\ last.log[k].usr # last.log[1].usr
    /\ last.log[1].usr \in dir.users

\* the two groups of a cohort
GroupsOfCohort(c) == {normalize_name(c), LeadersPrefix \o normalize_name(c)}

\* the groups of the cohort c exist, carry the same policies and have the
\* same members as before the last invocation, and these members exist
\* with the same credential and the same memberships
CohortUntouched(c) ==
    \A g \in GroupsOfCohort(c) \cap last.pre.groups :
        /\ g \in dir.groups
        /\ {t \in dir.gpol : t[1] = g} = {t \in last.pre.gpol : t[1] = g}
        /\ UsersIn(dir, g) = UsersIn(last.pre, g)
        /\ \A u \in UsersIn(last.pre, g) :
              /\ (u \in dir.profile) = (u \in last.pre.profile)
              /\ GroupsOf(dir, u) = GroupsOf(last.pre, u)

\* C35: deleteEnvironment(c) leaves the groups, policies and member
\* identities of every provisioned cohort with another normalised id as
\* they were.
C35_Original ==
    last.op = "RemoveGroup" =>
        \A c \in AlikeCohorts \cup RawCohorts :
            (/\ normalize_name(c) # StudentGroup
             /\ GroupsOfCohort(c) \subseteq last.pre.groups) => CohortUntouched(c)

\* the pairs (normalised member name, normalised cohort id) of the requests
NamePairs ==
    {<<normalize_name(m), normalize_name(c)>> :
        m \in AlikeMembers \cup RawMembers, c \in AlikeCohorts \cup RawCohorts}

\* C36: two different pairs (normalised member name, normalised cohort id)
\* never have the same identity id: createMembers skips a member as
\* 'already exists' only for an identity of its own cohort, and DeleteUser
\* deletes only an identity of the cohort it names (an identity carries the
\* id of its cohort in its Group tag).
C36_Original ==
    /\ \A p, q \in NamePairs :
          IdentityId(p[1], p[2]) = IdentityId(q[1], q[2]) => p = q
    /\ last.op = "CreateUsersForGroup" =>
          \A k \in SkippedAt :
              \/ <<last.log[k].usr, StudentGroup>> \in last.pre.tag
              \/ \E j \in Entries("create_user") :
                    /\ j < k
                    /\ last.log[j].usr = last.log[k].usr
                    /\ last.log[j].err = "ok"
    /\ last.op = "DeleteUser" =>
          \A u \in last.pre.users \ dir.users : <<u, StudentGroup>> \in last.pre.tag

\* C37: every identity of the directory is a member of the student group
\* of its cohort (the group its Group tag names).
C37_Original ==
    \A u \in dir.users :
        \E t \in dir.tag : t[1] = u /\ t[2] \in GroupsOf(dir, u)

\* the identities in the removed-identity list of the invocation on thread t
RemovedBy(t) == Range(thr[t].removed)

\* C40: of two deleteEnvironment calls for the same cohort that run at the
\* same time, under every interleaving of their remote calls, no identity
\* is in the removed-identity list of both, no list names an identity
\* twice, and when both have returned the two lists together hold exactly
\* the identities that were deleted.
C40_ConcurrentDeleteLists ==
    Both("delete") =>
        /\ RemovedBy(1) \cap RemovedBy(2) = {}
        /\ \A t \in Threads : Cardinality(RemovedBy(t)) = Len(thr[t].removed)
        /\ AllDone => RemovedBy(1) \cup RemovedBy(2) = last.pre.users \ dir.users

\* both calls collected both members, and each deleted one of them
C40_Witness ==
    /\ Both("delete")
    /\ AllDone
    /\ \A t \in Threads : Cardinality(thr[t].todel) = 2
    /\ \A t \in Threads : Len(thr[t].removed) = 1
    /\ dir.users = {}

\* C39: whenever createMembers returns its success message, every
\* requested member identity exists, has a credential and is a member of
\* the cohort group.
C39_Original ==
    (last.op = "CreateUsersForGroup" /\ last.ret = "Successfully processed") =>
        \A u \in NamedIdentities :
            /\ u \in dir.users
            /\ u \in dir.profile
            /\ StudentGroup \in GroupsOf(dir, u)

\* C38: a DeleteUser invocation that answered false leaves no identity of
\* the name it was given in the directory, also when it runs together with
\* a deleteEnvironment or a second deleteIdentity.
C38_Original ==
    \A t \in Threads :
        (thr[t].op = "deleteIdentity" /\ thr[t].ret = "False")
            => ConcIdentity \notin dir.users

====
